---- MODULE Spec2Model ----
(***************************************************************************)
(* State-machine model of the WorldCharacters multiplayer core:            *)
(*   - the authoritative room (colyseus-server/src/rooms/GameRoom.ts),     *)
(*   - the client session manager (ColyseusManager / useColyseus),         *)
(*   - the local movement throttle (PlayerController.broadcastPosition).   *)
(* Coordinates, angles and times are integers: whole world units in the    *)
(* room, hundredths of a unit in the PlayerController, milliseconds.  The   *)
(* path planner and the RemotePlayer compute with IEEE-754 doubles, as the *)
(* code does.  Every handler is one atomic action, as the room and the     *)
(* browser are single-threaded event loops.                                *)
(***************************************************************************)
EXTENDS Integers, Sequences, FiniteSets, TLC

\* ------------------------------------------------------------------------
\* Bounds of the model (not program constants)
\* ------------------------------------------------------------------------
NumSessions == 2
MaxOps == 4
MaxTime == 1
MaxTicks == 1
ExtraSessions == 2
MaxCapLeaves == 1
MaxFrames == 1
MaxClientOps == 3
MaxClicks == 2
MaxElapsed == 100
Epoch == 100
NumRosterJoins == 4
MaxUpdates == 3
MaxAvatarElapsed == 5
MaxAvatarFrames == 1
MaxTargets == 2
MaxSmoothFrames == 3
MaxReckonFrames == 8
MaxPathLen == 3
MaxData == 3
MaxCallbacks == 1
MaxRuns == 2
MaxRegistered == 1

\* ------------------------------------------------------------------------
\* Program constants
\* ------------------------------------------------------------------------
maxClients_offByOne == 20 + 1
maxClients == 20
AREA_SIZE == 50
spawnRadius == 10
TickMs == 100
MaxRetries == 10
StaleMs == 100
\* PlayerController coordinates are kept in hundredths of a world unit
Scale == 10 * 10
\* PlayerController: ms between throttled pose updates; step per frame and
\* waypoint radius in hundredths of a unit (0.05 and 0.5)
positionUpdateInterval == 50
moveSpeed == 5
waypointRadius == 50

AVAILABLE_MODELS == <<"/models/GreenGuy_Animated.glb", "/models/BusinessMan.glb">>

\* The i-th session id handed out by the transport; ids are unique per
\* connection and nine or ten characters long, as the transport makes them
SessionId(i) == "sid" \o ToString(i) \o "_aBcD"
Sessions == {SessionId(i) : i \in 1..NumSessions}
\* Sessions of the roster scenario
RosterSessions == {SessionId(i) : i \in 1..NumRosterJoins}
\* Sessions of the capacity scenario: more than the room has seats
CapSessions == {SessionId(i) : i \in 1..(maxClients + ExtraSessions)}

\* ------------------------------------------------------------------------
\* Inputs the environment may supply
\* ------------------------------------------------------------------------
\* (x, z) of a 'move' message: below, inside and above the area, mixed per axis
MoveInputs == {<<-26, 3>>, <<3, 100>>, <<25, -25>>, <<40, -31>>}
\* (x, y, z, rotationY) of a 'position' message
PositionInputs == {<<1, 3, 2, -1>>, <<30, 0, -40, 3>>}
\* options of a join: name and modelPath ("" stands for an absent option)
JoinOptions == {[name |-> "", modelPath |-> ""],
                [name |-> "Ann", modelPath |-> "/models/Custom.glb"]}
\* The two Math.random() results of a join (for x and for z), in tenths:
\* 0 stands for 0.0, 9 for 0.9
RandomInputs == {<<0, 9>>, <<5, 5>>}
\* Smoothed paths a click can yield along the axis: nothing stands on it,
\* so the path is the destination alone
PathInputs == {<<60>>, <<73>>}
\* Paths handed to followPath directly: waypoints along the axis
RouteInputs == {<<10, 70>>}
\* What the room's state holds for this player when the model has loaded:
\* no entry, or its x in hundredths of a unit (z is 0: the player stays on
\* the axis)
NoPlayer == [present |-> FALSE, x |-> 0]
ServerPlayerInputs == {NoPlayer, [present |-> TRUE, x |-> 120]}
\* Rates handed to setPositionUpdateRate, in Hz
RateInputs == {20, 60, 200}
\* Milliseconds between two readings of the clock
FrameGaps == {16, 34}

VARIABLES
  clients,      \* Room.clients: ids of the sessions connected to the room
  left,         \* ids of sessions that have disconnected (ids are not reused)
  players,      \* GameState.players: session id -> Player
  modelIndex,   \* GameRoom.modelIndex
  serverTime,   \* GameState.serverTime
  nTicks,       \* number of simulation ticks so far
  now,          \* the authority's wall clock, Date.now()
  outbox,       \* per recipient, the playerJoined messages the room sent to it
  seenAtJoin,   \* history: the sessions connected when each session joined
  lastOp,       \* history: the last client operation the room handled
  nOps          \* history: number of client operations handled so far

roomVars == <<clients, left, players, modelIndex, serverTime, nTicks, now,
              outbox, seenAtJoin, lastOp, nOps>>

VARIABLES
  hook,                     \* useColyseus/connect() progress of each client
  roomState,                \* each client's copy of the room state (room.state)
  handlers,                 \* setupRoomHandlers has run on the client
  onPlayerJoinedCallbacks,  \* number of registered join callbacks
  onPlayerLeftCallbacks,    \* number of registered leave callbacks
  playerCount,              \* useColyseus playerCount
  delivered,                \* number of outbox messages the client has received
  timers,                   \* pending checkPlayer retries: {[sessionId, attempts]}
  remotePlayers,            \* ColyseusManager.remotePlayers: id -> RemotePlayer
  joinFired,                \* history: join callback invocations per (client, player)
  frames                    \* history: render frames run by each client

clientVars == <<hook, roomState, handlers, onPlayerJoinedCallbacks,
                onPlayerLeftCallbacks, playerCount, delivered, timers,
                remotePlayers, joinFired, frames>>

VARIABLES
  position,              \* PlayerController.position
  path,                  \* PlayerController.path
  currentWaypointIndex,  \* PlayerController.currentWaypointIndex
  isMoving,              \* PlayerController.isMoving
  lastPositionUpdate,    \* PlayerController.lastPositionUpdate
  lastPositionSend,      \* MultiplayerManager.lastPositionSend
  positionSendInterval,  \* MultiplayerManager.positionSendInterval, in ms, as
                         \* the fraction <<numerator, denominator>>
  mesh,                  \* PlayerController.mesh is set: loadModel has run
  clock,                 \* the browser's Date.now()
  sentPoses,             \* history: poses handed to ColyseusManager.sendPositionUpdate
  sentData,              \* history: times of the poses MultiplayerManager sent
  nClicks,               \* history: number of paths asked for (clicks handled
                         \* and direct followPath calls)
  lastClick,             \* history: outcome of the last of them
  sentCommands           \* history: move and stop intents handed to ColyseusManager

ctlVars == <<position, path, currentWaypointIndex, isMoving, lastPositionUpdate,
             lastPositionSend, positionSendInterval, mesh, clock, sentPoses,
             sentData, nClicks, lastClick, sentCommands>>

VARIABLES
  avatar,      \* one RemotePlayer object of a viewer
  requested,   \* history: the animation changes asked for before the model loaded
  nUpdates,    \* history: number of updates the object has received
  received,    \* history: the updates the object has processed, in order
  lastAvatarOp, \* history: the last method that ran on the object
  nFrames,     \* history: number of render frames that brought no update
  manager      \* the class whose registry holds the object, once it has used it

avatarVars == <<avatar, requested, nUpdates, received, lastAvatarOp, nFrames,
                manager>>

VARIABLES
  nav,        \* the PathfindingManager: isInitialized, builder and its obstacles
  pathOp,     \* history: the last operation of the planner, with the arguments
              \* and the result of a call
  request     \* the call of the planner that is asked for
pathVars == <<nav, pathOp, request>>

VARIABLES
  mm,         \* one MultiplayerManager: room, localIdentity, remotePlayers, callbacks
  calls,      \* history: the joined and left callbacks invoked, in order
  lastData,   \* history: the last data handed to onDataReceived
  nData       \* history: number of data messages received
msgVars == <<mm, calls, lastData, nData>>

VARIABLES
  effect      \* one run of the useColyseus effect and the manager it created
effectVars == <<effect>>

VARIABLES
  wire,       \* messages of the local player on their way to the room
  link        \* the local browser beside the walk along the axis: whether
              \* its ColyseusManager has a room, position.y, position.z and
              \* rotation.y of the controller, and (history) whether the
              \* stop intent of the walk was sent
linkVars == <<wire, link>>

restVars == <<msgVars, effectVars, linkVars>>

vars == <<roomVars, clientVars, ctlVars, avatarVars, pathVars, msgVars,
         effectVars, linkVars>>

\* ------------------------------------------------------------------------
\* Helpers
\* ------------------------------------------------------------------------
Max(a, b) == IF a >= b THEN a ELSE b
Min(a, b) == IF a <= b THEN a ELSE b

\* String.prototype.substr(start, length), start counted from 0
substr(str, start, length) ==
  SubSeq(str, Min(start, Len(str)) + 1, Min(start + length, Len(str)))

\* Number.prototype.toString(36) of the double n / 16, a fraction in
\* [0, 1): a sixteenth is held exactly and its expansion in base 36 ends
\* after two digits, so the digits produced are all of them
Digits36 == "0123456789abcdefghijklmnopqrstuvwxyz"
RECURSIVE FractionDigits36(_)
FractionDigits36(n) ==
  IF n = 0
    THEN ""
    ELSE substr(Digits36, (n * 36) \div 16, 1) \o FractionDigits36((n * 36) % 16)
toString36(n) ==
  IF n = 0 THEN "0" ELSE "0." \o FractionDigits36(n)

\* Map.set(k, v)
Put(f, k, v) == [j \in DOMAIN f \cup {k} |-> IF j = k THEN v ELSE f[j]]

Remove_keep(f, k) == f
\* Map.delete(k)
Remove(f, k) == [j \in DOMAIN f \ {k} |-> f[j]]

\* new Player(): the schema's field defaults
NewPlayer ==
  [id |-> "", name |-> "", modelPath |-> "",
   x |-> 0, y |-> 0, z |-> 0, rotationY |-> 0,
   animation |-> "idle", destX |-> 0, destZ |-> 0, isMoving |-> FALSE,
   timestamp |-> 0, profileIndex |-> 0]

ClampToArea_upperOnly(v) == Min(AREA_SIZE \div 2, v)
\* Math.max(-AREA_SIZE / 2, Math.min(AREA_SIZE / 2, v))
ClampToArea(v) == Max(-(AREA_SIZE \div 2), Min(AREA_SIZE \div 2, v))

\* (Math.random() - 0.5) * spawnRadius, Math.random() given in tenths
SpawnCoord_wide(r10) == ((r10 - 5) * spawnRadius * 10) \div 10
SpawnCoord(r10) == ((r10 - 5) * spawnRadius) \div 10

Op(kind, sid, ok, args) == [kind |-> kind, sid |-> sid, ok |-> ok, args |-> args]

\* ------------------------------------------------------------------------
\* Room: initial state (onCreate)
\* ------------------------------------------------------------------------
RoomInit(universe) ==
  /\ clients = {}
  /\ left = {}
  /\ players = <<>>
  /\ modelIndex = 0
  /\ serverTime = 0
  /\ nTicks = 0
  /\ now = 0
  /\ outbox = [r \in universe |-> <<>>]
  /\ seenAtJoin = <<>>
  /\ lastOp = Op("create", "", TRUE, <<>>)
  /\ nOps = 0

\* ------------------------------------------------------------------------
\* Room: operations
\* ------------------------------------------------------------------------
BroadcastJoined_toAll(s) ==
  [r \in DOMAIN outbox |->
     IF r \in clients \cup {s}
       THEN Append(outbox[r], [type |-> "playerJoined", sessionId |-> s])
       ELSE outbox[r]]
\* this.broadcast('playerJoined', {...}, { except: client }): the joining
\* client is already among Room.clients when onJoin runs
BroadcastJoined(s) ==
  [r \in DOMAIN outbox |->
     IF r \in (clients \cup {s}) /\ r # s
       THEN Append(outbox[r], [type |-> "playerJoined", sessionId |-> s])
       ELSE outbox[r]]

JoinedPlayer_bindPose(s, options, rnd) ==
  [NewPlayer EXCEPT
     !.id = s,
     !.name = IF options.name # "" THEN options.name ELSE "Player-" \o substr(s, 0, 6),
     !.modelPath = IF options.modelPath # ""
                     THEN options.modelPath
                     ELSE AVAILABLE_MODELS[(modelIndex % Len(AVAILABLE_MODELS)) + 1],
     !.x = SpawnCoord(rnd[1]),
     !.y = 0,
     !.z = SpawnCoord(rnd[2])]
JoinedPlayer_firstModel(s, options, rnd) ==
  [NewPlayer EXCEPT
     !.id = s,
     !.name = IF options.name # "" THEN options.name ELSE "Player-" \o substr(s, 0, 6),
     !.modelPath = IF options.modelPath # ""
                     THEN options.modelPath
                     ELSE AVAILABLE_MODELS[1],
     !.x = SpawnCoord(rnd[1]),
     !.y = 0,
     !.z = SpawnCoord(rnd[2]),
     !.animation = "walk",
     !.isMoving = FALSE]
\* The player onJoin builds for session s
JoinedPlayer(s, options, rnd) ==
  [NewPlayer EXCEPT
     !.id = s,
     !.name = IF options.name # "" THEN options.name ELSE "Player-" \o substr(s, 0, 6),
     !.modelPath = IF options.modelPath # ""
                     THEN options.modelPath
                     ELSE AVAILABLE_MODELS[(modelIndex % Len(AVAILABLE_MODELS)) + 1],
     !.x = SpawnCoord(rnd[1]),
     !.y = 0,
     !.z = SpawnCoord(rnd[2]),
     !.animation = "walk",
     !.isMoving = FALSE]

MovedPlayer_resetsModel(p, x, z, t) ==
  [p EXCEPT !.destX = ClampToArea(x), !.destZ = ClampToArea(z),
            !.isMoving = TRUE, !.animation = "walk", !.timestamp = t,
            !.modelPath = AVAILABLE_MODELS[1]]
MovedPlayer_staleTimestamp(p, x, z, t) ==
  [p EXCEPT !.destX = ClampToArea(x), !.destZ = ClampToArea(z),
            !.isMoving = TRUE, !.animation = "walk", !.timestamp = 0]
MovedPlayer_keepAnimation(p, x, z, t) ==
  [p EXCEPT !.destX = ClampToArea(x), !.destZ = ClampToArea(z),
            !.isMoving = TRUE, !.timestamp = t]
\* The assignments of the 'move' handler
MovedPlayer(p, x, z, t) ==
  [p EXCEPT !.destX = ClampToArea(x), !.destZ = ClampToArea(z),
            !.isMoving = TRUE, !.animation = "walk", !.timestamp = t]

PositionedPlayer_clamped(p, x, y, z, rotationY, t) ==
  [p EXCEPT !.x = ClampToArea(x), !.y = y, !.z = ClampToArea(z),
            !.rotationY = rotationY, !.timestamp = t]
PositionedPlayer_stops(p, x, y, z, rotationY, t) ==
  [p EXCEPT !.x = x, !.y = y, !.z = z, !.rotationY = rotationY,
            !.timestamp = t, !.isMoving = FALSE]
\* The assignments of the 'position' handler
PositionedPlayer(p, x, y, z, rotationY, t) ==
  [p EXCEPT !.x = x, !.y = y, !.z = z, !.rotationY = rotationY,
            !.timestamp = t]

StoppedPlayer_animationOnly(p) == [p EXCEPT !.animation = "idle"]
\* The assignments of the 'stop' handler
StoppedPlayer(p) == [p EXCEPT !.isMoving = FALSE, !.animation = "idle"]

\* GameRoom.onJoin, run for a session the transport has admitted
onJoin(s, options, rnd) ==
  /\ s \notin clients /\ s \notin left
  /\ clients' = clients \cup {s}
  /\ players' = Put(players, s, JoinedPlayer(s, options, rnd))
  /\ modelIndex' = IF options.modelPath # "" THEN modelIndex ELSE modelIndex + 1
  /\ outbox' = BroadcastJoined(s)
  /\ seenAtJoin' = Put(seenAtJoin, s, clients)
  /\ lastOp' = Op("join", s, TRUE, <<options.name, options.modelPath>>)
  /\ nOps' = nOps + 1
  /\ UNCHANGED <<left, serverTime, nTicks, now>>

\* The seat limit is not code of GameRoom, which only declares maxClients:
\* the Room base class of the colyseus package applies it.  As the
\* specification describes it, a session is admitted while fewer than
\* maxClients are connected
HasSeat == Cardinality(clients) < maxClients
\* and a join arriving while every seat is taken is refused with RoomFull;
\* onJoin does not run
JoinRejected(s) ==
  /\ s \notin clients /\ s \notin left
  /\ ~HasSeat
  /\ lastOp' = Op("join", s, FALSE, <<"RoomFull">>)
  /\ UNCHANGED <<clients, left, players, modelIndex, serverTime, nTicks, now,
                 outbox, seenAtJoin, nOps>>

\* onLeave: the session disconnects and its player is deleted
onLeave(s) ==
  /\ s \in clients
  /\ clients' = clients \ {s}
  /\ left' = left \cup {s}
  /\ players' = Remove(players, s)
  /\ lastOp' = Op("leave", s, TRUE, <<>>)
  /\ nOps' = nOps + 1
  /\ UNCHANGED <<modelIndex, serverTime, nTicks, now, outbox, seenAtJoin>>

PlayerOf_orNew(s) == IF s \in DOMAIN players THEN <<players[s]>> ELSE <<NewPlayer>>
\* this.state.players.get(client.sessionId): <<player>>, or <<>> for undefined
PlayerOf(s) == IF s \in DOMAIN players THEN <<players[s]>> ELSE <<>>

\* onMessage('move')
onMove(s, x, z) ==
  /\ s \in clients \cup left
  /\ IF PlayerOf(s) = <<>>
       THEN /\ players' = players
            /\ lastOp' = Op("move", s, FALSE, <<x, z>>)
       ELSE /\ players' = Put(players, s, MovedPlayer(PlayerOf(s)[1], x, z, now))
            /\ lastOp' = Op("move", s, TRUE, <<x, z>>)
  /\ nOps' = nOps + 1
  /\ UNCHANGED <<clients, left, modelIndex, serverTime, nTicks, now, outbox,
                 seenAtJoin>>

\* onMessage('position')
onPosition(s, x, y, z, rotationY) ==
  /\ s \in clients \cup left
  /\ IF PlayerOf(s) = <<>>
       THEN /\ players' = players
            /\ lastOp' = Op("position", s, FALSE, <<x, y, z, rotationY>>)
       ELSE /\ players' = Put(players, s,
                              PositionedPlayer(PlayerOf(s)[1], x, y, z, rotationY, now))
            /\ lastOp' = Op("position", s, TRUE, <<x, y, z, rotationY>>)
  /\ nOps' = nOps + 1
  /\ UNCHANGED <<clients, left, modelIndex, serverTime, nTicks, now, outbox,
                 seenAtJoin>>

\* onMessage('stop')
onStop(s) ==
  /\ s \in clients \cup left
  /\ IF PlayerOf(s) = <<>>
       THEN /\ players' = players
            /\ lastOp' = Op("stop", s, FALSE, <<>>)
       ELSE /\ players' = Put(players, s, StoppedPlayer(PlayerOf(s)[1]))
            /\ lastOp' = Op("stop", s, TRUE, <<>>)
  /\ nOps' = nOps + 1
  /\ UNCHANGED <<clients, left, modelIndex, serverTime, nTicks, now, outbox,
                 seenAtJoin>>

\* setSimulationInterval callback: this.state.serverTime += deltaTime
Tick(deltaTime) ==
  /\ nTicks < MaxTicks
  /\ serverTime' = serverTime + deltaTime
  /\ nTicks' = nTicks + 1
  /\ UNCHANGED <<clients, left, players, modelIndex, now, outbox, seenAtJoin,
                 lastOp, nOps>>

\* The wall clock read by Date.now() advances
Elapse(d) ==
  /\ now + d <= MaxTime
  /\ now' = now + d
  /\ UNCHANGED <<clients, left, players, modelIndex, serverTime, nTicks,
                 outbox, seenAtJoin, lastOp, nOps>>

\* ------------------------------------------------------------------------
\* Natural numbers of any size, as sequences of limbs in base 2^14, the
\* least significant limb first and the most significant limb not zero
\* ------------------------------------------------------------------------
LimbBits == 14
Base == 16384
Pow2 == <<1, 2, 4, 8, 16, 32, 64, 128, 256, 512, 1024, 2048, 4096, 8192,
          16384>>
TwoTo(k) == Pow2[k + 1]

Limb(a, i) == IF i <= Len(a) THEN a[i] ELSE 0
\* the element of a set of one element: The({e : x \in {v}}) is e for
\* x = v, with v computed once however often e uses it
The(S) == CHOOSE x \in S : TRUE
\* the function f on 1..n as a sequence
AsSeq(f) == f \o <<>>

\* a without the zero limbs at its end
BTrim(a) ==
  The({SubSeq(s, 1, CHOOSE n \in 0..Len(s) :
                      /\ n = 0 \/ s[n] # 0
                      /\ \A j \in (n + 1)..Len(s) : s[j] = 0) : s \in {a}})

RECURSIVE BFromInt(_)
BFromInt(n) == IF n = 0 THEN <<>> ELSE <<n % Base>> \o BFromInt(n \div Base)

RECURSIVE ToIntFrom(_, _)
ToIntFrom(a, i) ==
  IF i > Len(a) THEN 0 ELSE a[i] + Base * ToIntFrom(a, i + 1)
\* the number a, below 2^31, as an integer
BToInt(a) == ToIntFrom(a, 1)

\* a < b
BLess(a, b) ==
  \/ Len(a) < Len(b)
  \/ /\ Len(a) = Len(b)
     /\ \E i \in 1..Len(a) :
          a[i] < b[i] /\ \A j \in (i + 1)..Len(a) : a[j] = b[j]
\* -1, 0 or 1 as a is below, equal to or above b
BCmp(a, b) == IF a = b THEN 0 ELSE IF BLess(a, b) THEN -1 ELSE 1

\* the carry into limb i of a + b: some limb below i overflows and every
\* limb between passes a carry on
Carry(a, b, i) ==
  \E j \in 1..(i - 1) :
    /\ Limb(a, j) + Limb(b, j) >= Base
    /\ \A k \in (j + 1)..(i - 1) : Limb(a, k) + Limb(b, k) = Base - 1
\* a + b
BAdd(a, b) ==
  BTrim(AsSeq([i \in 1..(Max(Len(a), Len(b)) + 1) |->
                 (Limb(a, i) + Limb(b, i) + (IF Carry(a, b, i) THEN 1 ELSE 0))
                   % Base]))

\* the borrow from limb i of a - b
Borrow(a, b, i) ==
  \E j \in 1..(i - 1) :
    /\ a[j] < Limb(b, j)
    /\ \A k \in (j + 1)..(i - 1) : a[k] = Limb(b, k)
\* a - b for a >= b
BSub(a, b) ==
  BTrim(AsSeq([i \in 1..Len(a) |->
                 (a[i] - Limb(b, i) - (IF Borrow(a, b, i) THEN 1 ELSE 0) + Base)
                   % Base]))

\* a * k for 0 <= k <= Base: the low halves of the products of the limbs
\* plus their high halves one limb up
BMulSmall(a, k) ==
  BAdd(AsSeq([i \in 1..Len(a) |-> (a[i] * k) % Base]),
       <<0>> \o [i \in 1..Len(a) |-> (a[i] * k) \div Base])

RECURSIVE SumProd(_, _, _, _, _)
\* the sum of the products a[i] * b[k + 1 - i] for i from i to hi
SumProd(a, b, k, i, hi) ==
  IF i > hi THEN 0 ELSE a[i] * b[k + 1 - i] + SumProd(a, b, k, i + 1, hi)
\* the sums of the products of limbs that weigh Base^(k - 1), for each k
Columns(a, b) ==
  AsSeq([k \in 1..(Len(a) + Len(b) - 1) |->
           SumProd(a, b, k, Max(1, k + 1 - Len(b)), Min(Len(a), k))])
\* the number with the digits c[k] < Base^3 at the places Base^(k - 1)
Carried(c) ==
  The({BAdd(low, <<0, 0>> \o [k \in 1..Len(c) |-> c[k] \div (Base * Base)]) :
         low \in {BAdd(AsSeq([k \in 1..Len(c) |-> c[k] % Base]),
                       <<0>> \o [k \in 1..Len(c) |-> (c[k] \div Base) % Base])}})
\* a * b when the shorter of the two has at most 7 limbs: every column is
\* below Base^3
BMul(a, b) ==
  IF a = <<>> \/ b = <<>> THEN <<>>
  ELSE The({Carried(c) : c \in {Columns(a, b)}})

\* a * 2^n
BShl(a, n) ==
  IF a = <<>> THEN <<>>
  ELSE [i \in 1..(n \div LimbBits) |-> 0] \o BMulSmall(a, TwoTo(n % LimbBits))

\* the limbs t divided by 2^r, rounded down, for r < LimbBits
ShrLimbs(t, r) ==
  BTrim(AsSeq([i \in 1..Len(t) |->
                 (t[i] \div TwoTo(r))
                   + (Limb(t, i + 1) % TwoTo(r)) * TwoTo(LimbBits - r)]))
\* a divided by 2^n, rounded down
BShr(a, n) ==
  The({ShrLimbs(t, n % LimbBits) : t \in {SubSeq(a, n \div LimbBits + 1, Len(a))}})

\* the low n binary digits of a are zeros
LowZero(a, n) ==
  /\ \A j \in 1..Min(Len(a), n \div LimbBits) : a[j] = 0
  /\ Limb(a, n \div LimbBits + 1) % TwoTo(n % LimbBits) = 0

\* the number of binary digits of a limb
IntBitLen(limb) ==
  CHOOSE k \in 0..LimbBits : limb < TwoTo(k) /\ (k = 0 \/ limb >= TwoTo(k - 1))
\* the number of binary digits of a
BBitLen(a) ==
  IF a = <<>> THEN 0 ELSE (Len(a) - 1) * LimbBits + IntBitLen(a[Len(a)])

BIsOdd(a) == a # <<>> /\ a[1] % 2 = 1

RECURSIVE Correct(_, _, _)
\* the largest digit d <= est with d * b <= r
Correct(r, b, est) ==
  IF \E p \in {BMulSmall(b, est)} : BLess(r, p) THEN Correct(r, b, est - 1)
  ELSE est
\* the largest digit d with d * b <= r, for r < b * Base and a divisor b
\* whose top limb is at least Base / 2
QDigit(r, b) ==
  IF BLess(r, b) THEN 0
  ELSE Correct(r, b,
               Min(Base - 1,
                   (Limb(r, Len(b) + 1) * Base + Limb(r, Len(b))) \div b[Len(b)]))

RECURSIVE DivFrom(_, _, _, _)
\* the digits of the quotient of a by b, the most significant first, when
\* rest is what the limbs of a above the i-th have left
DivFrom(a, b, i, rest) ==
  IF i = 0 THEN <<>>
  ELSE The({The({<<d>> \o The({DivFrom(a, b, i - 1, BSub(r, p)) :
                                  p \in {BMulSmall(b, d)}}) :
                  d \in {QDigit(r, b)}}) :
            r \in {BTrim(<<a[i]>> \o rest)}})
\* quotient q of a by b # 0, rounded down, and exact: the division left no
\* remainder
BDiv(a, b) ==
  The({The({The({The({[q |-> q, exact |-> BMul(q, b) = a] :
                        q \in {BTrim(AsSeq([i \in 1..Len(digits) |->
                                              digits[Len(digits) + 1 - i]]))}}) :
                   digits \in {IF Len(n) < Len(m) THEN <<>>
                               ELSE DivFrom(n, m, Len(n) - Len(m) + 1,
                                            SubSeq(n, Len(n) - Len(m) + 2,
                                                   Len(n)))}}) :
              n \in {BShl(a, up)}, m \in {BShl(b, up)}}) :
         up \in {LimbBits - IntBitLen(b[Len(b)])}})

\* the square root of an integer n below 2^28, rounded down
SqrtInt(n) ==
  The({CHOOSE r \in (128 * h)..(128 * h + 127) :
         r * r <= n /\ n < (r + 1) * (r + 1) :
       h \in {CHOOSE h \in 0..127 :
                /\ (128 * h) * (128 * h) <= n
                /\ n < (128 * (h + 1)) * (128 * (h + 1))}})
RECURSIVE SqrtNewton(_, _)
\* Newton's iteration from a guess x above the root: x becomes
\* (x + a / x) / 2 until that is no smaller, which is when a / x is at
\* least x
SqrtNewton(a, x) ==
  The({IF ~BLess(q, x) THEN x
       ELSE The({The({SqrtNewton(a, next) : next \in {BShr(sum, 1)}}) :
                   sum \in {BAdd(x, q)}}) :
         q \in {BDiv(a, x).q}})
\* the square root of a, rounded down
BSqrt(a) ==
  IF a = <<>> THEN <<>>
  ELSE The({The({The({The({SqrtNewton(a, guess) :
                             guess \in {BShl(BFromInt(SqrtInt(BToInt(top)) + 1),
                                             k)}}) :
                        top \in {BShr(a, 2 * k)}}) :
                   k \in {IF bits <= 28 THEN 0 ELSE (bits - 27) \div 2}}) :
              bits \in {BBitLen(a)}})

\* ------------------------------------------------------------------------
\* The numbers of JavaScript: IEEE-754 doubles.  A finite double is
\* (-1)^neg * man * 2^exp with man = 0, or 2^52 <= man < 2^53; the
\* operations round to the nearest double, ties to the even mantissa.
\* Zero has one representation (the sign of a zero decides nothing here)
\* ------------------------------------------------------------------------
Precision == 53
Zero == [neg |-> FALSE, exp |-> 0, man |-> <<>>]
IsZero(x) == x.man = <<>>
\* 2^52 and 2^53 in limbs
MinMan == <<0, 0, 0, 1024>>
TopMan == <<0, 0, 0, 2048>>

\* The double nearest to (-1)^neg * n * 2^e, or to a value just above it
\* in magnitude when sticky (then n has more than Precision + 1 binary
\* digits).  q1 is n without its low shift - 1 digits: its last digit is
\* the half, and the digits dropped and sticky say whether n is off it
FRound(neg, n, e, sticky) ==
  IF n = <<>> THEN Zero
  ELSE The({
         IF shift <= 0
           THEN [neg |-> neg, exp |-> e + shift, man |-> BShl(n, -shift)]
         ELSE The({
           The({
             The({IF m = TopMan
                    THEN [neg |-> neg, exp |-> e + shift + 1, man |-> MinMan]
                    ELSE [neg |-> neg, exp |-> e + shift, man |-> m] :
                  m \in {BShr(q2, 1)}}) :
             q2 \in {IF /\ BIsOdd(q1)
                        /\ \/ sticky
                           \/ ~LowZero(n, shift - 1)
                           \/ q1[1] % 4 >= 2
                       THEN BAdd(q1, <<1>>) ELSE q1}}) :
           q1 \in {BShr(n, shift - 1)}}) :
         shift \in {BBitLen(n) - Precision}})

\* an integer as a double
FInt(i) ==
  The({FRound(i < 0, n, 0, FALSE) : n \in {BFromInt(IF i < 0 THEN -i ELSE i)}})

\* -x
FNeg(x) == IF IsZero(x) THEN x ELSE [x EXCEPT !.neg = ~@]

\* x + y: the mantissas at the smaller exponent, added when the signs
\* agree, else the smaller taken from the larger
FAdd(x, y) ==
  IF IsZero(x) THEN y
  ELSE IF IsZero(y) THEN x
  ELSE The({
         The({
           The({
             The({FRound(IF x.neg = y.neg \/ xLarger THEN x.neg ELSE y.neg,
                         sum, e, FALSE) :
                  sum \in {IF x.neg = y.neg THEN BAdd(n[1], n[2])
                           ELSE BSub(n[IF xLarger THEN 1 ELSE 2],
                                     n[IF xLarger THEN 2 ELSE 1])}}) :
             xLarger \in {~BLess(n[1], n[2])}}) :
           n \in {AsSeq([i \in 1..2 |->
                           BShl(<<x, y>>[i].man, <<x, y>>[i].exp - e)])}}) :
         e \in {Min(x.exp, y.exp)}})
\* x - y
FSub(x, y) == FAdd(x, FNeg(y))
\* x * y
FMul(x, y) ==
  IF IsZero(x) \/ IsZero(y) THEN Zero
  ELSE The({FRound(x.neg # y.neg, p, x.exp + y.exp, FALSE) :
              p \in {BMul(x.man, y.man)}})
\* x / y for y # 0
FDiv(x, y) ==
  IF IsZero(x) \/ IsZero(y) THEN Zero
  ELSE The({
         The({FRound(x.neg # y.neg, d.q, x.exp - y.exp - (Precision + 3),
                     ~d.exact) :
              d \in {BDiv(n, y.man)}}) :
         n \in {BShl(x.man, Precision + 3)}})
\* Math.sqrt(x) for x >= 0
FSqrt(x) ==
  IF IsZero(x) THEN Zero
  ELSE The({
         The({
           The({FRound(FALSE, r, (x.exp - k) \div 2, BMul(r, r) # n) :
                r \in {BSqrt(n)}}) :
           n \in {BShl(x.man, k)}}) :
         k \in {Precision + 3 + ((x.exp + Precision + 3) % 2)}})

\* x < y
FLess(x, y) ==
  IF IsZero(x) THEN ~IsZero(y) /\ ~y.neg
  ELSE IF IsZero(y) THEN x.neg
  ELSE IF x.neg # y.neg THEN x.neg
  ELSE IF x.exp # y.exp THEN x.neg = (x.exp > y.exp)
  ELSE IF x.neg THEN BLess(y.man, x.man) ELSE BLess(x.man, y.man)

\* Math.ceil(x) for 0 <= x < 2^28, as an integer
FCeil(x) ==
  IF IsZero(x) THEN 0
  ELSE IF x.exp >= 0 THEN BToInt(BShl(x.man, x.exp))
  ELSE IF -x.exp >= Precision THEN 1
  ELSE The({BToInt(whole) + (IF LowZero(x.man, -x.exp) THEN 0 ELSE 1) :
              whole \in {BShr(x.man, -x.exp)}})

\* the number written with two decimals: h / 100
Num(h) == The({FDiv(n, d) : n \in {FInt(h)}, d \in {FInt(100)}})
\* x in hundredths, rounded to the nearest integer (|x| < 2^20)
Hundredths(x) ==
  IF IsZero(x) THEN 0
  ELSE The({
         The({
           The({IF x.neg THEN -BToInt(h) ELSE BToInt(h) :
                h \in {BShr(BAdd(t, <<1>>), 1)}}) :
           t \in {IF x.exp >= 0 THEN BShl(n, x.exp)
                  ELSE IF -x.exp >= 80 THEN <<>>
                  ELSE BShr(n, -x.exp)}}) :
         n \in {BMulSmall(x.man, 200)}})


One == FInt(1)
Two == FInt(2)
Half == FDiv(One, Two)
\* Math.max(x, y)
FMax(x, y) == IF FLess(x, y) THEN y ELSE x

\* ------------------------------------------------------------------------
\* Vector3 (@babylonjs/core): a triple <<x, y, z>> of doubles
\* ------------------------------------------------------------------------
\* new Vector3(x, y, z) for coordinates written in hundredths
V3(hx, hy, hz) == <<Num(hx), Num(hy), Num(hz)>>
\* the coordinates of v in hundredths, each rounded to the nearest integer
Shown(v) == <<Hundredths(v[1]), Hundredths(v[2]), Hundredths(v[3])>>

add(a, b) == AsSeq([i \in 1..3 |-> FAdd(a[i], b[i])])
subtract(a, b) == AsSeq([i \in 1..3 |-> FSub(a[i], b[i])])
scale(a, k) == AsSeq([i \in 1..3 |-> FMul(a[i], k)])
\* Math.sqrt(x * x + y * y + z * z)
length(a) ==
  The({The({The({FSqrt(sum) : sum \in {FAdd(xy, sq[3])}}) :
              xy \in {FAdd(sq[1], sq[2])}}) :
         sq \in {AsSeq([i \in 1..3 |-> FMul(a[i], a[i])])}})
\* normalizeFromLength(this.length()): a vector of length 0 or 1 is left as
\* it is, any other is scaled by 1.0 / length
normalize(a) ==
  The({IF IsZero(len) \/ len = One THEN a
       ELSE The({scale(a, inverse) : inverse \in {FDiv(One, len)}}) :
         len \in {length(a)}})
\* Vector3.Distance
Distance(a, b) == The({length(d) : d \in {subtract(a, b)}})

\* ------------------------------------------------------------------------
\* RemotePlayer (player/RemotePlayer.ts)
\* ------------------------------------------------------------------------
\* Animation groups of the assets ImportMeshAsync can resolve with: the
\* clip names, in the order of result.animationGroups
StandardAsset == <<"Idle", "Standard_Walk">>
AssetInputs == {StandardAsset, <<"Man_Walk">>, <<>>}

UpperCase == "ABCDEFGHIJKLMNOPQRSTUVWXYZ"
LowerCase == "abcdefghijklmnopqrstuvwxyz"
\* The lower-case letter of each upper-case one
LowerOf ==
  [ch \in {SubSeq(UpperCase, i, i) : i \in 1..Len(UpperCase)} |->
     LET i == CHOOSE j \in 1..Len(UpperCase) : SubSeq(UpperCase, j, j) = ch
     IN SubSeq(LowerCase, i, i)]
\* String.prototype.toLowerCase, one character
LowerChar(ch) == IF ch \in DOMAIN LowerOf THEN LowerOf[ch] ELSE ch
RECURSIVE toLowerCase(_)
\* String.prototype.toLowerCase
toLowerCase(str) ==
  IF str = "" THEN ""
  ELSE LowerChar(SubSeq(str, 1, 1)) \o toLowerCase(SubSeq(str, 2, Len(str)))
\* String.prototype.includes
includes(str, sub) ==
  \E i \in 0..(Len(str) - Len(sub)) : SubSeq(str, i + 1, i + Len(sub)) = sub

\* Array.prototype.find over the clip names: the first one that passes, ""
\* if none does
find(groups, Test(_)) ==
  LET hits == {i \in 1..Len(groups) : Test(groups[i])}
  IN IF hits = {} THEN ""
     ELSE groups[CHOOSE i \in hits : \A j \in hits : i <= j]

\* RemotePlayer.interpolationSpeed = 0.15
interpolationSpeed == Num(15)
\* Math.PI and 2 * Math.PI
PI == [neg |-> FALSE, exp |-> -51, man |-> <<11544, 4368, 8117, 1608>>]
TwoPI == FMul(Two, PI)
\* the deltaTime of a render frame, in seconds: updateRemotePlayers(deltaTime
\* = 0.016)
FrameSeconds == FDiv(FInt(16), FInt(1000))
\* the length above which a velocity is extrapolated: 0.01
MinSpeed == Num(1)
\* new Vector3(0, 0, 0), Vector3.Zero()
Origin == <<Zero, Zero, Zero>>

\* new RemotePlayer(...): field defaults; "" stands for null.  Positions
\* and the velocity are Vector3, angles are in radians, lastUpdateTime is
\* in milliseconds
NewRemotePlayer ==
  [position |-> Origin, rotation |-> Zero,
   targetPosition |-> Origin, targetRotation |-> Zero,
   velocity |-> Origin,
   animationGroups |-> <<>>, playing |-> "",
   currentAnimation |-> "idle", pendingAnimation |-> "",
   modelLoaded |-> FALSE, lastUpdateTime |-> 0,
   interpolationSpeed |-> interpolationSpeed]

\* The clip RemotePlayer.playAnimation picks for a name, "" if none
ClipFor(groups, animationName) ==
  LET NamedWalk(n) == n = "Standard_Walk"
      HasWalk(n) == includes(toLowerCase(n), "walk")
      HasName(n) == includes(toLowerCase(n), toLowerCase(animationName))
      IdleLike(n) == includes(toLowerCase(n), "idle")
                       \/ includes(toLowerCase(n), "default")
      animation == IF includes(toLowerCase(animationName), "walk")
                     THEN IF find(groups, NamedWalk) # ""
                            THEN find(groups, NamedWalk)
                            ELSE find(groups, HasWalk)
                     ELSE find(groups, HasName)
  IN IF animation # "" THEN animation
     ELSE IF animationName = "idle" THEN find(groups, IdleLike)
     ELSE ""

\* RemotePlayer.playAnimation: nothing without animation groups; else every
\* clip is stopped, and the clip found for the name, if any, is started and
\* the name recorded
playAnimation(rp, animationName) ==
  IF Len(rp.animationGroups) = 0 THEN rp
  ELSE LET clip == ClipFor(rp.animationGroups, animationName)
       IN IF clip # ""
            THEN [rp EXCEPT !.playing = clip, !.currentAnimation = animationName]
            ELSE [rp EXCEPT !.playing = ""]

\* RemotePlayer.loadModel, once the asset has arrived with its animation
\* groups
loadModel(rp, groups) ==
  LET loaded == [rp EXCEPT !.animationGroups = groups, !.modelLoaded = TRUE,
                           !.playing = ""] IN
  IF rp.pendingAnimation # ""
    THEN [playAnimation(loaded, rp.pendingAnimation) EXCEPT !.pendingAnimation = ""]
    ELSE playAnimation(loaded, "walk")

updateFromSchema_keepTarget(rp, schema, t) == [rp EXCEPT !.lastUpdateTime = t]
\* RemotePlayer.updateFromSchema at Date.now() = t
updateFromSchema(rp, schema, t) ==
  LET aimed == [rp EXCEPT !.targetPosition = <<schema.x, schema.y, schema.z>>,
                          !.targetRotation = schema.rotationY,
                          !.lastUpdateTime = t]
  IN IF schema.animation # "" /\ schema.animation # rp.currentAnimation
       THEN IF ~rp.modelLoaded
              THEN [aimed EXCEPT !.pendingAnimation = schema.animation]
              ELSE playAnimation(aimed, schema.animation)
       ELSE aimed

\* deltaPos.scale(1 / deltaTime) for deltaTime = ms / 1000
VelocityOver(deltaPos, ms) ==
  The({The({scale(deltaPos, inverse) : inverse \in {FDiv(One, deltaTime)}}) :
         deltaTime \in {FDiv(FInt(ms), FInt(1000))}})

receiveUpdate_keepTarget(rp, upd, t) == [rp EXCEPT !.lastUpdateTime = t]
\* RemotePlayer.receiveUpdate at Date.now() = t; upd.x, upd.y and upd.z are
\* update.position, upd.rotationY is update.rotation.y
receiveUpdate(rp, upd, t) ==
  LET newPos == <<upd.x, upd.y, upd.z>>
      aimed == [rp EXCEPT
                  !.velocity =
                     IF rp.lastUpdateTime > 0 /\ t - rp.lastUpdateTime > 0
                       THEN The({VelocityOver(deltaPos, t - rp.lastUpdateTime) :
                                   deltaPos \in {subtract(newPos, rp.targetPosition)}})
                       ELSE @,
                  !.targetPosition = newPos,
                  !.targetRotation = upd.rotationY,
                  !.lastUpdateTime = t]
  IN IF upd.animation # rp.currentAnimation
       THEN playAnimation(aimed, upd.animation)
       ELSE aimed

\* start + (end - start) * amount, as the doubles compute it
Mix(start, end, amount) ==
  The({The({FAdd(start, part) : part \in {FMul(delta, amount)}}) :
         delta \in {FSub(end, start)}})
Lerp_past(start, end, amount) ==
  The({AsSeq([i \in 1..3 |-> Mix(start[i], end[i], more)]) :
         more \in {FAdd(One, amount)}})
\* Vector3.Lerp(start, end, amount)
Lerp(start, end, amount) == AsSeq([i \in 1..3 |-> Mix(start[i], end[i], amount)])

RECURSIVE Wrapped(_)
\* the two while loops of RemotePlayer.lerp
Wrapped(delta) ==
  IF FLess(PI, delta) THEN The({Wrapped(d) : d \in {FSub(delta, TwoPI)}})
  ELSE IF FLess(delta, FNeg(PI)) THEN The({Wrapped(d) : d \in {FAdd(delta, TwoPI)}})
  ELSE delta

\* RemotePlayer.lerp (angle-aware)
lerp(start, end, factor) ==
  The({The({The({FAdd(start, part) : part \in {FMul(delta, factor)}}) :
              delta \in {Wrapped(raw)}}) :
         raw \in {FSub(end, start)}})

\* velocity.length() > 0.01
Speeding(rp) == The({FLess(MinSpeed, len) : len \in {length(rp.velocity)}})

\* RemotePlayer.update(deltaTime) at Date.now() = t, deltaTime in seconds
update(rp, deltaTime, t) ==
  IF ~rp.modelLoaded THEN rp
  ELSE The({[aimed EXCEPT
               !.position = Lerp(@, aimed.targetPosition, rp.interpolationSpeed),
               !.rotation = lerp(@, aimed.targetRotation, rp.interpolationSpeed)] :
         aimed \in {IF t - rp.lastUpdateTime > StaleMs /\ Speeding(rp)
                      THEN The({[rp EXCEPT !.targetPosition = add(@, prediction)] :
                                  prediction \in {scale(rp.velocity, deltaTime)}})
                      ELSE rp}})

\* Math.min(x, y)
FMin(x, y) == IF FLess(y, x) THEN y ELSE x
\* RemotePlayer.setInterpolationSpeed(speed):
\* Math.max(0.01, Math.min(1.0, speed))
MinFraction == Num(1)
setInterpolationSpeed(rp, speed) ==
  [rp EXCEPT !.interpolationSpeed =
     The({FMax(MinFraction, capped) : capped \in {FMin(One, speed)}})]

\* A RemotePlayer right after its constructor: loadModel is under way
AvatarInit ==
  /\ avatar = NewRemotePlayer
  /\ requested = <<>>
  /\ nUpdates = 0
  /\ received = <<>>
  /\ lastAvatarOp = "constructor"
  /\ nFrames = 0
  /\ manager = "none"

\* ------------------------------------------------------------------------
\* Client: ColyseusManager and the useColyseus hook
\* ------------------------------------------------------------------------
NoState == [synced |-> FALSE, players |-> <<>>]
Synced(ps) == [synced |-> TRUE, players |-> ps]

ClientInit ==
  /\ hook = [c \in Sessions |-> "off"]
  /\ roomState = [c \in Sessions |-> NoState]
  /\ handlers = [c \in Sessions |-> FALSE]
  /\ onPlayerJoinedCallbacks = [c \in Sessions |-> 0]
  /\ onPlayerLeftCallbacks = [c \in Sessions |-> 0]
  /\ playerCount = [c \in Sessions |-> 0]
  /\ delivered = [c \in Sessions |-> 0]
  /\ timers = [c \in Sessions |-> {}]
  /\ remotePlayers = [c \in Sessions |-> <<>>]
  /\ joinFired = [c \in Sessions |-> [s \in Sessions |-> 0]]
  /\ frames = [c \in Sessions |-> 0]

\* The viewer's join callback: a RemotePlayer is created and registered
\* (registerRemotePlayer) for each player the callbacks are told about
RegisterOnJoin(rps, told) ==
  [s \in DOMAIN rps \cup told |-> IF s \in told THEN NewRemotePlayer ELSE rps[s]]

\* this.onPlayerJoinedCallbacks.forEach(cb => cb(sessionId, player)) for the
\* players in told, with the callbacks registered so far on client c; ps is
\* the client's players map (updatePlayerCount reads its size)
NotifyJoined(c, told, ps) ==
  /\ joinFired' = [joinFired EXCEPT ![c] =
        [s \in Sessions |-> IF s \in told
                              THEN @[s] + onPlayerJoinedCallbacks[c]
                              ELSE @[s]]]
  /\ IF onPlayerJoinedCallbacks[c] > 0 /\ told # {}
       THEN /\ remotePlayers' = [remotePlayers EXCEPT ![c] = RegisterOnJoin(@, told)]
            /\ playerCount' = [playerCount EXCEPT ![c] = Cardinality(DOMAIN ps)]
       ELSE UNCHANGED <<remotePlayers, playerCount>>

\* setupRoomHandlers, then the rest of useColyseus' connect(): the handlers
\* are installed, the players already in the state are announced to the
\* callbacks registered so far, and only then the hook registers its own
CompleteConnect(c, ps) ==
  /\ handlers' = [handlers EXCEPT ![c] = TRUE]
  /\ joinFired' = [joinFired EXCEPT ![c] =
        [s \in Sessions |-> IF s \in DOMAIN ps \ {c}
                              THEN @[s] + onPlayerJoinedCallbacks[c]
                              ELSE @[s]]]
  /\ remotePlayers' = [remotePlayers EXCEPT ![c] =
        IF onPlayerJoinedCallbacks[c] > 0
          THEN RegisterOnJoin(@, DOMAIN ps \ {c}) ELSE @]
  /\ playerCount' = [playerCount EXCEPT ![c] = Cardinality(DOMAIN ps)]
  /\ onPlayerJoinedCallbacks' = [onPlayerJoinedCallbacks EXCEPT ![c] = @ + 1]
  /\ onPlayerLeftCallbacks' = [onPlayerLeftCallbacks EXCEPT ![c] = @ + 1]
  /\ hook' = [hook EXCEPT ![c] = "ready"]

\* The options ColyseusManager.connect sends with joinOrCreate: the name
\* asked for, or a name made of Math.random() (rnd, in sixteenths), and the
\* modelPath only when one is asked for
ConnectOptions(playerName, modelPath, rnd) ==
  [name |-> IF playerName # ""
              THEN playerName
              ELSE "Player-" \o substr(toString36(rnd), 2, 9),
   modelPath |-> modelPath]

\* useColyseus effect: a manager is created and joinOrCreate is requested
HookConnect(c) ==
  /\ hook[c] = "off"
  /\ hook' = [hook EXCEPT ![c] = "joining"]
  /\ UNCHANGED <<roomState, handlers, onPlayerJoinedCallbacks,
                 onPlayerLeftCallbacks, playerCount, delivered, timers,
                 remotePlayers, joinFired, frames>>

\* joinOrCreate resolves on the client with room.state as the transport
\* left it: not there yet (connect() waits for the first state), there but
\* still without players, or there with the room's players.  With a state
\* there connect() runs through
JoinResolved(c, state) ==
  /\ hook[c] = "joining"
  /\ c \in clients
  /\ IF state.synced
       THEN /\ roomState' = [roomState EXCEPT ![c] = state]
            /\ CompleteConnect(c, state.players)
       ELSE /\ hook' = [hook EXCEPT ![c] = "awaitState"]
            /\ UNCHANGED <<roomState, handlers, onPlayerJoinedCallbacks,
                           onPlayerLeftCallbacks, playerCount, remotePlayers,
                           joinFired>>
  /\ UNCHANGED <<delivered, timers, frames>>

onRemove_keep(rps, sessionId) == rps
\* this.room.state.players.onRemove: the remote player is disposed of and
\* deleted
onRemove(rps, sessionId) == [s \in DOMAIN rps \ {sessionId} |-> rps[s]]

RECURSIVE onRemoveAll(_, _)
onRemoveAll(rps, removed) ==
  IF removed = {} THEN rps
  ELSE LET s == CHOOSE r \in removed : TRUE
       IN onRemoveAll(onRemove(rps, s), removed \ {s})

\* A state message (full state or patch) reaches the client: its copy now
\* equals the room's players; onRemove runs for each player that went away
\* and the first state lets a waiting connect() run through
StateSync(c) ==
  /\ c \in clients
  /\ hook[c] \in {"awaitState", "ready"}
  /\ roomState[c] # Synced(players)
  /\ roomState' = [roomState EXCEPT ![c] = Synced(players)]
  /\ IF hook[c] = "awaitState"
       THEN CompleteConnect(c, players)
       ELSE LET removed == DOMAIN roomState[c].players \ DOMAIN players IN
            /\ remotePlayers' = [remotePlayers EXCEPT ![c] =
                  IF handlers[c] THEN onRemoveAll(@, removed) ELSE @]
            /\ playerCount' = [playerCount EXCEPT ![c] =
                  IF handlers[c] /\ removed # {} /\ onPlayerLeftCallbacks[c] > 0
                    THEN Cardinality(DOMAIN players) ELSE @]
            /\ UNCHANGED <<hook, handlers, onPlayerJoinedCallbacks,
                           onPlayerLeftCallbacks, joinFired>>
  /\ UNCHANGED <<delivered, timers, frames>>

\* checkPlayer(attempts) of the playerJoined handler
checkPlayer(c, sessionId, attempts) ==
  IF sessionId \notin DOMAIN roomState[c].players
    THEN /\ timers' = [timers EXCEPT ![c] =
               IF attempts < MaxRetries
                 THEN (@ \ {[sessionId |-> sessionId, attempts |-> attempts]})
                        \cup {[sessionId |-> sessionId, attempts |-> attempts + 1]}
                 ELSE @ \ {[sessionId |-> sessionId, attempts |-> attempts]}]
         /\ UNCHANGED <<remotePlayers, playerCount, joinFired>>
    ELSE /\ timers' = [timers EXCEPT ![c] =
               @ \ {[sessionId |-> sessionId, attempts |-> attempts]}]
         /\ NotifyJoined(c, {sessionId}, roomState[c].players)

\* The next playerJoined message reaches the client; it is lost when no
\* handler is installed yet
DeliverJoined(c) ==
  /\ c \in clients
  /\ hook[c] \in {"awaitState", "ready"}
  /\ delivered[c] < Len(outbox[c])
  /\ delivered' = [delivered EXCEPT ![c] = @ + 1]
  /\ IF handlers[c]
       THEN checkPlayer(c, outbox[c][delivered[c] + 1].sessionId, 0)
       ELSE UNCHANGED <<timers, remotePlayers, playerCount, joinFired>>
  /\ UNCHANGED <<hook, roomState, handlers, onPlayerJoinedCallbacks,
                 onPlayerLeftCallbacks, frames>>

\* setTimeout(() => checkPlayer(attempts + 1), 100) fires, with or without
\* a connection, while the page is open
RetryTimer(c) ==
  /\ hook[c] # "closed"
  /\ \E t \in timers[c] : checkPlayer(c, t.sessionId, t.attempts)
  /\ UNCHANGED <<hook, roomState, handlers, onPlayerJoinedCallbacks,
                 onPlayerLeftCallbacks, delivered, frames>>

\* The model of a remote player finishes loading, with or without a
\* connection, while the page is open
ModelLoaded(c) ==
  /\ hook[c] # "closed"
  /\ \E s \in DOMAIN remotePlayers[c] :
       /\ ~remotePlayers[c][s].modelLoaded
       /\ \E groups \in AssetInputs :
            remotePlayers' = [remotePlayers EXCEPT ![c][s] = loadModel(@, groups)]
  /\ UNCHANGED <<hook, roomState, handlers, onPlayerJoinedCallbacks,
                 onPlayerLeftCallbacks, playerCount, delivered, timers,
                 joinFired, frames>>

\* An entry of room.state as updateFromSchema reads it: the numbers of
\* the room, whole here, are doubles in the browser
Schema(p) ==
  [x |-> FInt(p.x), y |-> FInt(p.y), z |-> FInt(p.z),
   rotationY |-> FInt(p.rotationY), animation |-> p.animation]
\* ColyseusManager.updateRemotePlayers(deltaTime), once per render frame
updateRemotePlayers(c, deltaTime) ==
  /\ hook[c] \in {"awaitState", "ready", "lost"}
  /\ remotePlayers' = [remotePlayers EXCEPT ![c] =
        [s \in DOMAIN @ |->
           The({update(aimed, deltaTime, now) :
                  aimed \in {IF s \in DOMAIN roomState[c].players
                               THEN The({updateFromSchema(@[s], schema, now) :
                                           schema \in {Schema(roomState[c].players[s])}})
                               ELSE @[s]}})]]
  /\ frames' = [frames EXCEPT ![c] = @ + 1]
  /\ UNCHANGED <<hook, roomState, handlers, onPlayerJoinedCallbacks,
                 onPlayerLeftCallbacks, playerCount, delivered, timers,
                 joinFired>>

\* The browser of a connected client goes away: the room runs onLeave
ClientGone(c) ==
  /\ hook[c] # "off"
  /\ onLeave(c)
  /\ hook' = [hook EXCEPT ![c] = "closed"]
  /\ UNCHANGED <<ctlVars, avatarVars, pathVars, restVars>>
  /\ UNCHANGED <<roomState, handlers, onPlayerJoinedCallbacks,
                 onPlayerLeftCallbacks, playerCount, delivered, timers,
                 remotePlayers, joinFired, frames>>

\* The connection of client c to the room is lost while the page stays
\* open: the room runs onLeave, and on the client the room.onLeave callback
\* of connect() logs the close code.  A connect() that is waiting for the
\* first state keeps waiting
ConnectionLost(c) ==
  /\ hook[c] \in {"awaitState", "ready"}
  /\ onLeave(c)
  /\ hook' = [hook EXCEPT ![c] = IF @ = "ready" THEN "lost" ELSE @]
  /\ UNCHANGED <<ctlVars, avatarVars, pathVars, restVars>>
  /\ UNCHANGED <<roomState, handlers, onPlayerJoinedCallbacks,
                 onPlayerLeftCallbacks, playerCount, delivered, timers,
                 remotePlayers, joinFired, frames>>

\* ------------------------------------------------------------------------
\* PlayerController (player/PlayerController.ts) and the pose throttle of
\* MultiplayerManager (multiplayer/MultiplayerManager.ts).  The local
\* player walks along one axis; positions are in hundredths of a unit.
\* ------------------------------------------------------------------------
ControllerInit ==
  /\ position = 0
  /\ path = <<>>
  /\ currentWaypointIndex = 0
  /\ isMoving = FALSE
  /\ lastPositionUpdate = 0
  /\ lastPositionSend = 0
  /\ positionSendInterval = <<50, 1>>
  /\ mesh = FALSE
  /\ clock = Epoch
  /\ sentPoses = <<>>
  /\ sentData = <<>>
  /\ nClicks = 0
  /\ lastClick = "none"
  /\ sentCommands = <<>>

Abs(v) == IF v < 0 THEN -v ELSE v
Sign(v) == IF v < 0 THEN -1 ELSE IF v > 0 THEN 1 ELSE 0

\* the early return of broadcastPosition
Throttled(force, t, last) == ~force /\ (t - last) < positionUpdateInterval

broadcastPosition_forgetForced(force, pos, moving) ==
  IF Throttled(force, clock, lastPositionUpdate)
    THEN UNCHANGED <<sentPoses, lastPositionUpdate>>
    ELSE /\ sentPoses' = Append(sentPoses,
              [t |-> clock, force |-> force, x |-> pos, moving |-> moving])
         /\ lastPositionUpdate' = IF force THEN lastPositionUpdate ELSE clock
\* PlayerController.broadcastPosition(force) with a manager attached; pos is
\* the position sent and moving is isMoving at the call
broadcastPosition(force, pos, moving) ==
  IF Throttled(force, clock, lastPositionUpdate)
    THEN UNCHANGED <<sentPoses, lastPositionUpdate>>
    ELSE /\ sentPoses' = Append(sentPoses,
              [t |-> clock, force |-> force, x |-> pos, moving |-> moving])
         /\ lastPositionUpdate' = clock

\* PlayerController.followPath
followPath(p) ==
  /\ path' = p
  /\ currentWaypointIndex' = 0
  /\ isMoving' = TRUE

\* ColyseusManager.sendMoveCommand with a room set
sendMoveCommand(x) ==
  sentCommands' = Append(sentCommands, [kind |-> "move", x |-> x])

\* ColyseusManager.sendStopCommand with a room set
sendStopCommand ==
  sentCommands' = Append(sentCommands, [kind |-> "stop", x |-> position])

handleClick_sendsAnyway(found, p) ==
  /\ nClicks' = nClicks + 1
  /\ lastClick' = IF found THEN "path" ELSE "failed"
  /\ IF found
       THEN followPath(p)
       ELSE UNCHANGED <<path, currentWaypointIndex, isMoving>>
  /\ sendMoveCommand(p[Len(p)])
  /\ UNCHANGED <<position, lastPositionUpdate, lastPositionSend,
                 positionSendInterval, mesh, clock, sentPoses, sentData>>
\* PlayerController.handleClick: found tells whether pathfinding is ready
\* and returned a path, p is the smoothed path, whose last waypoint is the
\* destination
handleClick(found, p) ==
  /\ nClicks' = nClicks + 1
  /\ lastClick' = IF found THEN "path" ELSE "failed"
  /\ IF found
       THEN /\ followPath(p)
            /\ sendMoveCommand(p[Len(p)])
       ELSE UNCHANGED <<path, currentWaypointIndex, isMoving, sentCommands>>
  /\ UNCHANGED <<position, lastPositionUpdate, lastPositionSend,
                 positionSendInterval, mesh, clock, sentPoses, sentData>>

stopMovement_keepPath ==
  /\ isMoving' = FALSE
  /\ path' = path
  /\ sendStopCommand
  /\ broadcastPosition(TRUE, position, FALSE)
stopMovement_noFinalPose ==
  /\ isMoving' = FALSE
  /\ path' = <<>>
  /\ sendStopCommand
  /\ UNCHANGED <<sentPoses, lastPositionUpdate>>
\* PlayerController.stopMovement
stopMovement ==
  /\ isMoving' = FALSE
  /\ path' = <<>>
  /\ sendStopCommand
  /\ broadcastPosition(TRUE, position, FALSE)

\* The outcomes of the test distance < 0.5 of update().  The code compares
\* doubles: a distance of exactly 0.5 in hundredths is a difference of two
\* doubles that rounds to 0.5 or to the double just below it, depending on
\* how the position was accumulated (0.7 - 0.2 is below 0.5, 0.6 - 0.1 is
\* not), which hundredths do not carry; both outcomes are kept there
Reached(target, pos) ==
  IF Abs(target - pos) = waypointRadius THEN BOOLEAN
  ELSE {Abs(target - pos) < waypointRadius}

Update_staysOnWaypoint ==
  /\ isMoving /\ Len(path) # 0
  /\ \E reached \in Reached(path[currentWaypointIndex + 1], position) :
       IF reached
         THEN /\ currentWaypointIndex' = currentWaypointIndex
              /\ broadcastPosition(FALSE, position, TRUE)
              /\ UNCHANGED <<isMoving, path, sentCommands, position>>
         ELSE /\ position' = position
                     + Sign(path[currentWaypointIndex + 1] - position) * moveSpeed
              /\ broadcastPosition(FALSE, position', TRUE)
              /\ UNCHANGED <<currentWaypointIndex, isMoving, path, sentCommands>>
  /\ UNCHANGED <<lastPositionSend, positionSendInterval, mesh, clock, sentData,
                 nClicks, lastClick>>
\* PlayerController.update, once per frame
Update ==
  /\ isMoving /\ Len(path) # 0
  /\ \E reached \in Reached(path[currentWaypointIndex + 1], position) :
       IF reached
         THEN /\ currentWaypointIndex' = currentWaypointIndex + 1
              /\ IF currentWaypointIndex + 1 >= Len(path)
                   THEN stopMovement
                   ELSE UNCHANGED <<isMoving, path, sentPoses, lastPositionUpdate,
                                    sentCommands>>
              /\ UNCHANGED position
         ELSE /\ position' = position
                     + Sign(path[currentWaypointIndex + 1] - position) * moveSpeed
              /\ broadcastPosition(FALSE, position', TRUE)
              /\ UNCHANGED <<currentWaypointIndex, isMoving, path, sentCommands>>
  /\ UNCHANGED <<lastPositionSend, positionSendInterval, mesh, clock, sentData,
                 nClicks, lastClick>>

\* PlayerController.loadModel from the point where ImportMeshAsync has
\* resolved: the position is set to the origin and then, with a manager
\* whose room state holds this player, to that player's position there
loadPlayerModel(serverPlayer) ==
  /\ mesh' = TRUE
  /\ position' = IF serverPlayer.present THEN serverPlayer.x ELSE 0
  /\ UNCHANGED <<path, currentWaypointIndex, isMoving, lastPositionUpdate,
                 lastPositionSend, positionSendInterval, clock, sentPoses,
                 sentData, nClicks, lastClick, sentCommands>>

\* PlayerController.rotationSpeed = 0.15
rotationSpeed == Num(15)
\* Math.atan2(1, 0), the angle of a step up the axis; a step down the axis
\* has Math.atan2(-1, 0), its negation
HalfPI == FDiv(PI, Two)
\* PlayerController.lerpAngle: radians, in doubles; the difference is brought
\* into [-Math.PI, Math.PI] by the same two while loops as RemotePlayer.lerp
lerpAngle(start, end, factor) ==
  The({The({The({FAdd(start, part) : part \in {FMul(delta, factor)}}) :
              delta \in {Wrapped(raw)}}) :
         raw \in {FSub(end, start)}})

RECURSIVE GCD(_, _)
GCD(a, b) == IF b = 0 THEN a ELSE GCD(b, a % b)

\* Math.max(10, 1000 / hz) as a fraction in lowest terms; a denominator of
\* 0 stands for Infinity (hz = 0)
SendInterval(hz) ==
  IF hz < 0 \/ hz >= 100 THEN <<10, 1>>
  ELSE IF hz = 0 THEN <<1, 0>>
  ELSE <<1000 \div GCD(1000, hz), hz \div GCD(1000, hz)>>

\* MultiplayerManager.setPositionUpdateRate
setPositionUpdateRate(hz) ==
  /\ positionSendInterval' = SendInterval(hz)
  /\ UNCHANGED <<position, path, currentWaypointIndex, isMoving,
                 lastPositionUpdate, lastPositionSend, mesh, clock, sentPoses,
                 sentData, nClicks, lastClick, sentCommands>>

\* MultiplayerManager.sendPositionUpdate with a room set
sendPositionUpdate ==
  /\ IF (clock - lastPositionSend) * positionSendInterval[2]
          < positionSendInterval[1]
       THEN UNCHANGED <<sentData, lastPositionSend>>
       ELSE /\ sentData' = Append(sentData, [t |-> clock,
                                             interval |-> positionSendInterval])
            /\ lastPositionSend' = clock
  /\ UNCHANGED <<position, path, currentWaypointIndex, isMoving,
                 lastPositionUpdate, positionSendInterval, mesh, clock,
                 sentPoses, nClicks, lastClick, sentCommands>>

\* Date.now() moves on by d milliseconds
Wait(d) ==
  /\ clock' = clock + d
  /\ UNCHANGED <<position, path, currentWaypointIndex, isMoving,
                 lastPositionUpdate, lastPositionSend, positionSendInterval,
                 mesh, sentPoses, sentData, nClicks, lastClick, sentCommands>>

\* ------------------------------------------------------------------------
\* PathfindingManager (pathfinding/PathfindingManager.ts) and NavMeshBuilder
\* (pathfinding/NavMeshBuilder.ts).  A mesh is a name and the two corners
\* getHierarchyBoundingVectors returns for it; an obstacle is a centre and
\* a radius
\* ------------------------------------------------------------------------
\* new PathfindingManager(): builder = null, isInitialized = false
NoNav == [isInitialized |-> FALSE, hasBuilder |-> FALSE, obstacles |-> <<>>]

\* NavMeshBuilder.addObstacle(mesh)
addObstacle(obstacles, aMesh) ==
  The({The({Append(obstacles, [center |-> scale(sum, Half),
                               radius |-> FMul(widest, Half)]) :
              widest \in {FMax(size[1], size[3])}}) :
         sum \in {add(aMesh.max, aMesh.min)},
         size \in {subtract(aMesh.max, aMesh.min)}})

\* the filter of buildNavMeshFromScene
IsObstacleName(name) ==
  \/ includes(name, "obstacle")
  \/ includes(name, "wall")
  \/ includes(name, "box")
  \/ includes(name, "cylinder")
RECURSIVE AddObstacles(_, _, _)
AddObstacles(obstacles, meshes, i) ==
  IF i > Len(meshes) THEN obstacles
  ELSE IF IsObstacleName(meshes[i].name) /\ meshes[i].name # "floor"
    THEN AddObstacles(addObstacle(obstacles, meshes[i]), meshes, i + 1)
  ELSE AddObstacles(obstacles, meshes, i + 1)
\* buildNavMeshFromScene(scene): the obstacles of the builder it returns
buildNavMeshFromScene(meshes) == AddObstacles(<<>>, meshes, 1)

\* The default safetyMargin of isPositionBlocked, 1.5, and the margin
\* hasLineOfSight passes, 1.0
DefaultMargin == Num(150)
SightMargin == One

\* distance < obstacle.radius + safetyMargin
Within(obstacle, pos, safetyMargin) ==
  \E distance \in {Distance(pos, obstacle.center)},
     reach \in {FAdd(obstacle.radius, safetyMargin)} : FLess(distance, reach)
isPositionBlocked_firstOnly(obstacles, pos, safetyMargin) ==
  Len(obstacles) > 0 /\ Within(obstacles[1], pos, safetyMargin)
\* NavMeshBuilder.isPositionBlocked(position, safetyMargin)
isPositionBlocked(obstacles, pos, safetyMargin) ==
  \E k \in 1..Len(obstacles) : Within(obstacles[k], pos, safetyMargin)

\* PathfindingManager.isWalkable
isWalkable(n, pos) ==
  IF ~n.hasBuilder THEN TRUE
  ELSE ~isPositionBlocked(n.obstacles, pos, DefaultMargin)

\* samples and searchRadius of getClosestWalkablePosition
Samples == 8
SearchRadius == 5
\* Math.cos(angle) and Math.sin(angle) for angle = (i / 8) * Math.PI * 2,
\* i = 0..7
CosTable ==
  <<One,                                                                \* 1
    [neg |-> FALSE, exp |-> -53, man |-> <<15309, 6652, 2534, 1448>>],  \* 0.7071067811865476
    [neg |-> FALSE, exp |-> -106, man |-> <<7175, 3153, 8803, 1129>>],  \* 6.123233995736766e-17
    [neg |-> TRUE, exp |-> -53, man |-> <<15308, 6652, 2534, 1448>>],   \* -0.7071067811865475
    FNeg(One),                                                          \* -1
    [neg |-> TRUE, exp |-> -53, man |-> <<15310, 6652, 2534, 1448>>],   \* -0.7071067811865477
    [neg |-> TRUE, exp |-> -105, man |-> <<2570, 12922, 5012, 1694>>],  \* -1.8369701987210297e-16
    [neg |-> FALSE, exp |-> -53, man |-> <<15307, 6652, 2534, 1448>>]>> \* 0.7071067811865474
SinTable ==
  <<Zero,                                                               \* 0
    [neg |-> FALSE, exp |-> -53, man |-> <<15308, 6652, 2534, 1448>>],  \* 0.7071067811865475
    One,                                                                \* 1
    [neg |-> FALSE, exp |-> -53, man |-> <<15309, 6652, 2534, 1448>>],  \* 0.7071067811865476
    [neg |-> FALSE, exp |-> -105, man |-> <<7175, 3153, 8803, 1129>>],  \* 1.2246467991473532e-16
    [neg |-> TRUE, exp |-> -53, man |-> <<15308, 6652, 2534, 1448>>],   \* -0.7071067811865475
    FNeg(One),                                                          \* -1
    [neg |-> TRUE, exp |-> -53, man |-> <<15310, 6652, 2534, 1448>>]>>  \* -0.7071067811865477

\* The k-th point getClosestWalkablePosition tries, k = (radius - 1) * 8 + i
\* for radius = 1..5 and i = 0..7
SampleRadius(k) == k \div Samples + 1
SampleAngle(k) == k % Samples
TestPos(pos, k) ==
  The({The({add(pos, offset) :
              offset \in {<<FMul(cos, radius), Zero, FMul(sin, radius)>>}}) :
         cos \in {CosTable[SampleAngle(k) + 1]},
         sin \in {SinTable[SampleAngle(k) + 1]},
         radius \in {FInt(SampleRadius(k))}})

NoSample == -1
FirstWalkable_last(n, pos) ==
  IF isWalkable(n, pos) THEN NoSample
  ELSE IF \A k \in 0..(Samples * SearchRadius - 1) :
            ~isWalkable(n, TestPos(pos, k)) THEN NoSample
  ELSE CHOOSE k \in 0..(Samples * SearchRadius - 1) :
         /\ isWalkable(n, TestPos(pos, k))
         /\ \A j \in (k + 1)..(Samples * SearchRadius - 1) :
              ~isWalkable(n, TestPos(pos, j))
RECURSIVE FirstFrom(_, _, _)
\* the two loops of getClosestWalkablePosition from the k-th sample on: the
\* index of the first walkable sample, or NoSample
FirstFrom(n, pos, k) ==
  IF k >= Samples * SearchRadius THEN NoSample
  ELSE IF \E testPos \in {TestPos(pos, k)} : isWalkable(n, testPos) THEN k
  ELSE FirstFrom(n, pos, k + 1)
\* Index of the sample getClosestWalkablePosition returns, or NoSample: the
\* position itself is walkable, or no sample is
FirstWalkable(n, pos) ==
  IF isWalkable(n, pos) THEN NoSample ELSE FirstFrom(n, pos, 0)

\* PathfindingManager.getClosestWalkablePosition(position)
getClosestWalkablePosition(n, pos) ==
  The({IF k = NoSample THEN pos ELSE TestPos(pos, k) :
         k \in {FirstWalkable(n, pos)}})

\* What findPath returns: null, or an array of waypoints
Null == [isNull |-> TRUE, waypoints |-> <<>>]
Waypoints(p) == [isNull |-> FALSE, waypoints |-> p]

\* PathfindingManager.createSimplePath
\* the midpoint of the direct line is blocked
MidpointBlocked(n, start, end) ==
  \E sum \in {add(start, end)} :
    \E midpoint \in {scale(sum, Half)} :
      isPositionBlocked(n.obstacles, midpoint, DefaultMargin)
\* the waypoint beside the obstacle obs that is nearer to end: obs.center
\* plus or minus offset, where offset is perpendicular, the normalized
\* (-toObstacle.z, 0, toObstacle.x), scaled by obs.radius + 2
Beside(obs, start, end) ==
  The({
    The({
      The({
        The({IF \E dist1 \in {Distance(waypoint1, end)},
                   dist2 \in {Distance(waypoint2, end)} : FLess(dist1, dist2)
               THEN waypoint1 ELSE waypoint2 :
             waypoint1 \in {add(obs.center, offset)},
             waypoint2 \in {subtract(obs.center, offset)}}) :
        offset \in {scale(perpendicular, clearance)}}) :
      perpendicular \in
        {normalize(<<FNeg(toObstacle[3]), Zero, toObstacle[1]>>)},
      clearance \in {FAdd(obs.radius, Two)}}) :
    toObstacle \in {subtract(obs.center, start)}})
\* PathfindingManager.createSimplePath
createSimplePath(n, start, end) ==
  IF ~n.hasBuilder THEN <<end>>
  ELSE IF ~MidpointBlocked(n, start, end) THEN <<end>>
  ELSE IF Len(n.obstacles) > 0
    THEN <<Beside(n.obstacles[1], start, end), end>>
  ELSE <<end>>

\* the tolerance of findPath, 5, as a double
MaxSnap == FInt(5)
\* Vector3.Distance(walkableEnd, end) > 5
TooFar(walkableEnd, end) ==
  \E distance \in {Distance(walkableEnd, end)} : FLess(MaxSnap, distance)

\* PathfindingManager.findPath
findPath(n, start, end) ==
  IF ~n.isInitialized THEN Waypoints(createSimplePath(n, start, end))
  ELSE IF n.hasBuilder /\ isPositionBlocked(n.obstacles, end, DefaultMargin)
    THEN The({IF TooFar(walkableEnd, end) THEN Null
              ELSE Waypoints(createSimplePath(n, start, walkableEnd)) :
                walkableEnd \in {getClosestWalkablePosition(n, end)}})
    ELSE Waypoints(createSimplePath(n, start, end))

\* Math.ceil(distance) of hasLineOfSight
Steps(start, end) == FCeil(length(subtract(end, start)))

\* testPos of hasLineOfSight:
\* start.add(direction.scale((i / steps) * distance)) for steps > 0
SightSample(start, end, i) ==
  LET direction == subtract(end, start)
      distance == length(direction)
      steps == FCeil(distance)
  IN add(start, scale(normalize(direction),
                      FMul(FDiv(FInt(i), FInt(steps)), distance)))

hasLineOfSight_always(n, start, end) == TRUE
\* PathfindingManager.hasLineOfSight; between two equal points steps is 0,
\* the one sample is NaN and no obstacle blocks it
hasLineOfSight(n, start, end) ==
  IF ~n.hasBuilder THEN TRUE
  ELSE \E direction \in {subtract(end, start)} :
         \E distance \in {length(direction)}, unit \in {normalize(direction)} :
           \E steps \in {FCeil(distance)} :
             IF steps = 0 THEN TRUE
             ELSE \A i \in 0..steps :
                    \E t \in {The({FDiv(num, den) :
                                     num \in {FInt(i)}, den \in {FInt(steps)}})} :
                      \E along \in {FMul(t, distance)} :
                        \E step \in {scale(unit, along)} :
                          \E testPos \in {add(start, step)} :
                            ~isPositionBlocked(n.obstacles, testPos, SightMargin)

RECURSIVE Furthest(_, _, _, _)
\* the for loop of smoothPath: the furthest waypoint after p[cur] in line of
\* sight, tried from i downwards, or the next waypoint
Furthest(n, p, cur, i) ==
  IF i <= cur + 1 THEN cur + 1
  ELSE IF hasLineOfSight(n, p[cur], p[i]) THEN i
  ELSE Furthest(n, p, cur, i - 1)

RECURSIVE SmoothFrom(_, _, _)
\* the while loop of smoothPath from currentIndex = cur
SmoothFrom(n, p, cur) ==
  IF cur >= Len(p) THEN <<>>
  ELSE The({<<p[furthestIndex]>> \o SmoothFrom(n, p, furthestIndex) :
              furthestIndex \in {Furthest(n, p, cur, Len(p))}})

smoothPath_ends(n, p) == <<p[1], p[Len(p)]>>
\* PathfindingManager.smoothPath
smoothPath(n, p) ==
  IF Len(p) <= 2 THEN p ELSE <<p[1]>> \o SmoothFrom(n, p, 1)

\* the record of an operation that is no call of the planner
NoCall(kind, n) ==
  [kind |-> kind, nav |-> n, start |-> Origin, end |-> Origin, raw |-> <<>>,
   result |-> Waypoints(<<>>), margin |-> Zero, blocked |-> FALSE]
\* no call is asked for
NoRequest ==
  [kind |-> "none", start |-> Origin, end |-> Origin, raw |-> <<>>,
   margin |-> Zero]

PlannerInit ==
  /\ nav = NoNav
  /\ pathOp = NoCall("constructor", NoNav)
PathInit ==
  /\ PlannerInit
  /\ request = NoRequest

\* PathfindingManager.initialize(scene) for a scene with the given meshes:
\* buildNavMeshFromScene always returns a navmesh and a builder
initialize(meshes) ==
  /\ nav' = [isInitialized |-> TRUE, hasBuilder |-> TRUE,
             obstacles |-> buildNavMeshFromScene(meshes)]
  /\ pathOp' = NoCall("initialize", nav')
  /\ UNCHANGED request

\* PathfindingManager.dispose
dispose ==
  /\ nav' = NoNav
  /\ pathOp' = NoCall("dispose", NoNav)
  /\ UNCHANGED request

\* A call of findPath(start, end)
FindPathCall(start, end) ==
  /\ pathOp' = [kind |-> "findPath", nav |-> nav, start |-> start, end |-> end,
                raw |-> <<>>, result |-> findPath(nav, start, end),
                margin |-> Zero, blocked |-> FALSE]
  /\ UNCHANGED <<nav, request>>

\* A call of smoothPath(raw)
SmoothPathCall(raw) ==
  /\ pathOp' = [kind |-> "smoothPath", nav |-> nav, start |-> Origin,
                end |-> Origin, raw |-> raw,
                result |-> Waypoints(smoothPath(nav, raw)),
                margin |-> Zero, blocked |-> FALSE]
  /\ UNCHANGED <<nav, request>>

\* A call of getClosestWalkablePosition(position): the point returned is the
\* one waypoint of the result
ClosestWalkableCall(pos) ==
  /\ pathOp' = [kind |-> "getClosestWalkablePosition", nav |-> nav,
                start |-> Origin, end |-> pos, raw |-> <<>>,
                result |-> Waypoints(<<getClosestWalkablePosition(nav, pos)>>),
                margin |-> Zero, blocked |-> FALSE]
  /\ UNCHANGED <<nav, request>>

\* A call of builder.isPositionBlocked(position, safetyMargin) on a model
\* with a builder
IsBlockedCall(pos, safetyMargin) ==
  /\ nav.hasBuilder
  /\ pathOp' = [kind |-> "isPositionBlocked", nav |-> nav,
                start |-> Origin, end |-> pos, raw |-> <<>>,
                result |-> Waypoints(<<>>), margin |-> safetyMargin,
                blocked |-> isPositionBlocked(nav.obstacles, pos,
                                              safetyMargin)]
  /\ UNCHANGED <<nav, request>>

\* ------------------------------------------------------------------------
\* MultiplayerManager (multiplayer/MultiplayerManager.ts): the messages of
\* the data channel.  A remote player is represented by the number of
\* position updates handed to its receiveUpdate
\* ------------------------------------------------------------------------
\* a field that a JSON object does not have reads as undefined
Undefined == "<undefined>"
LocalIdentity == "alice"

MessagesInit ==
  /\ mm = [room |-> FALSE, localIdentity |-> "", remotePlayers |-> <<>>,
           onPlayerJoinedCallbacks |-> 0, onPlayerLeftCallbacks |-> 0]
  /\ calls = <<>>
  /\ lastData = [kind |-> "none"]
  /\ nData = 0

\* MultiplayerManager.setRoom
setRoom(m) == [m EXCEPT !.room = TRUE, !.localIdentity = LocalIdentity]

\* MultiplayerManager.cleanup: sendLeaveMessage publishes to the room and
\* changes nothing of the manager; every remote player is disposed of and
\* the registry cleared, the callbacks are dropped and the room is forgotten
managerCleanup(m) ==
  [m EXCEPT !.remotePlayers = <<>>, !.onPlayerJoinedCallbacks = 0,
            !.onPlayerLeftCallbacks = 0, !.room = FALSE]

\* MultiplayerManager.onRemotePlayerJoined and onRemotePlayerLeft
onRemotePlayerJoined(m) ==
  [m EXCEPT !.onPlayerJoinedCallbacks = @ + 1]
onRemotePlayerLeft(m) ==
  [m EXCEPT !.onPlayerLeftCallbacks = @ + 1]

\* MultiplayerManager.registerRemotePlayer with a new RemotePlayer
registerRemotePlayer(m, identity) ==
  [m EXCEPT !.remotePlayers =
     [i \in DOMAIN @ \cup {identity} |-> IF i = identity THEN 0 ELSE @[i]]]

\* decoder.decode and JSON.parse: bytes that are not JSON text throw, the
\* text "null" gives null, and the text of an object gives its fields
Throws == [thrown |-> TRUE]
Parsed(v) == [thrown |-> FALSE, value |-> v]
JsonNull == [null |-> TRUE]
JSONparse(data) ==
  CASE data.kind = "bytes" -> Throws
    [] data.kind = "null" -> Parsed(JsonNull)
    [] data.kind = "object" ->
         Parsed([null |-> FALSE, type |-> data.type, identity |-> data.identity])

\* the callbacks invoked by forEach, one entry for each
Invoke(kind, identity, count) ==
  [i \in 1..count |-> [kind |-> kind, identity |-> identity]]

handlePositionUpdate(m, message) ==
  IF message.identity \in DOMAIN m.remotePlayers
    THEN [m EXCEPT !.remotePlayers[message.identity] = @ + 1]
    ELSE m

\* MultiplayerManager.handlePlayerLeft: the registry after the message
handlePlayerLeft(m, message) ==
  [m EXCEPT !.remotePlayers =
     [i \in DOMAIN @ \ {message.identity} |-> @[i]]]

\* MultiplayerManager.handleMessage: the manager after the message, and the
\* callbacks invoked
handleMessage(m, message) ==
  CASE message.type = "position" ->
         [mm |-> handlePositionUpdate(m, message), calls |-> <<>>]
    [] message.type = "path" -> [mm |-> m, calls |-> <<>>]
    [] message.type = "joined" ->
         [mm |-> m,
          calls |-> Invoke("joined", message.identity, m.onPlayerJoinedCallbacks)]
    [] message.type = "left" ->
         [mm |-> handlePlayerLeft(m, message),
          calls |-> Invoke("left", message.identity, m.onPlayerLeftCallbacks)]
    [] OTHER -> [mm |-> m, calls |-> <<>>]

\* MultiplayerManager.onDataReceived: reading a field of null throws, and
\* what the try block throws is caught and logged
onDataReceived(m, data) ==
  LET parsed == JSONparse(data)
  IN IF parsed.thrown \/ parsed.value.null
       THEN [mm |-> m, calls |-> <<>>]
       ELSE IF parsed.value.identity = m.localIdentity
              THEN [mm |-> m, calls |-> <<>>]
              ELSE handleMessage(m, parsed.value)

\* ------------------------------------------------------------------------
\* The effect of the useColyseus hook: every run of the
\* effect creates a ColyseusManager and connects it; the cleanup of a run
\* comes before the next run.  A run is the closure of one effect run: its
\* flag disposed, its manager (room, handlers) and the session the room
\* holds for it
\* ------------------------------------------------------------------------
NewRun ==
  [phase |-> "idle", disposed |-> FALSE, room |-> FALSE, handlers |-> FALSE,
   session |-> "none", leaves |-> 0, inFlight |-> FALSE, setConnected |-> FALSE,
   remotePlayers |-> 0]

EffectInit ==
  effect = [runs |-> [r \in 1..MaxRuns |-> NewRun], started |-> 0,
            managerRef |-> 0, isConnected |-> FALSE, error |-> FALSE,
            playerCount |-> 0, sessionId |-> ""]

\* ColyseusManager.registerRemotePlayer on the manager of a run
registerOnRun(run) == [run EXCEPT !.remotePlayers = @ + 1]

\* ColyseusManager.disconnect up to its await: room.leave() is called when
\* the manager has a room; without a room the remote players are disposed
\* of and the map is cleared at once
disconnect(run) ==
  IF run.room
    THEN [run EXCEPT !.leaves = @ + 1,
                     !.session = IF @ = "joined" THEN "leaving" ELSE @]
    ELSE [run EXCEPT !.remotePlayers = 0]

\* the rest of ColyseusManager.disconnect, after room.leave() has resolved:
\* the room is forgotten, the remote players are disposed of and the map
\* is cleared
leaveResolved(run) ==
  [run EXCEPT !.session = "left", !.room = FALSE, !.remotePlayers = 0]

\* the effect body: a new manager is stored in managerRef and connect starts
runEffect(e, r) ==
  [e EXCEPT !.started = r, !.managerRef = r, !.runs[r].phase = "joining"]

afterConnect_ignoresDisposed(e, r, count) ==
  [e EXCEPT !.runs[r].phase = "done", !.runs[r].setConnected = TRUE,
            !.isConnected = TRUE, !.error = FALSE,
            !.sessionId = IF e.runs[r].room THEN SessionId(r) ELSE "",
            !.playerCount = IF e.runs[r].room THEN count ELSE @]
\* what the effect's connect() does once manager.connect has returned;
\* count is room.state.players.size at that moment
afterConnect(e, r, count) ==
  IF e.runs[r].disposed
    THEN [e EXCEPT !.runs[r] = [disconnect(@) EXCEPT !.phase = "done"]]
    ELSE [e EXCEPT !.runs[r].phase = "done", !.runs[r].setConnected = TRUE,
                   !.isConnected = TRUE, !.error = FALSE,
                   !.sessionId = IF e.runs[r].room THEN SessionId(r) ELSE "",
                   !.playerCount = IF e.runs[r].room THEN count ELSE @]

\* client.joinOrCreate resolves: the manager has a room; when the state is
\* there already, connect goes on to setupRoomHandlers and returns
joinResolves(e, r, synced, count) ==
  LET joined == [e EXCEPT !.runs[r].room = TRUE, !.runs[r].session = "joined"]
  IN IF synced
       THEN afterConnect([joined EXCEPT !.runs[r].handlers = TRUE], r, count)
       ELSE [joined EXCEPT !.runs[r].phase = "awaitState"]

\* client.joinOrCreate rejects: connect rethrows and the effect's catch
\* reports the error unless the run is disposed
joinFails(e, r) ==
  [e EXCEPT !.runs[r].phase = "failed",
            !.error = IF e.runs[r].disposed THEN @ ELSE TRUE]

\* the first state change arrives: setupRoomHandlers, which returns early
\* without a room, and connect returns
stateArrives(e, r, count) ==
  afterConnect([e EXCEPT !.runs[r].handlers = e.runs[r].room], r, count)

\* the cleanup of run r: the run is flagged, the manager in managerRef is
\* disconnected and forgotten, and the hook's state is reset
cleanup(e, r) ==
  LET flagged == [e EXCEPT !.runs[r].disposed = TRUE,
                           !.runs[r].inFlight =
                              e.runs[r].phase \in {"joining", "awaitState"}]
      left_ == IF flagged.managerRef # 0
                 THEN [flagged EXCEPT !.runs[flagged.managerRef] = disconnect(@),
                                      !.managerRef = 0]
                 ELSE flagged
  IN [left_ EXCEPT !.isConnected = FALSE, !.playerCount = 0, !.sessionId = ""]

LinkInit ==
  /\ wire = <<>>
  /\ link = [room |-> FALSE, y |-> 0, z |-> 0, rotationY |-> Zero, stopSent |-> FALSE]

RestInit == MessagesInit /\ EffectInit /\ LinkInit

\* ------------------------------------------------------------------------
\* Specification of the data channel: the page sets the room, registers
\* callbacks and remote players, and data arrives from the other
\* participants
\* ------------------------------------------------------------------------
\* Identities and type tags that arriving objects carry
IdentityInputs == {LocalIdentity, "bob", Undefined}
TypeInputs == {"position", "path", "joined", "left", "chat", Undefined}
DataInputs ==
  {[kind |-> "bytes"], [kind |-> "null"]}
    \cup {[kind |-> "object", type |-> t, identity |-> i] :
             t \in TypeInputs, i \in IdentityInputs}

MessagesSpecInit == RoomInit(Sessions) /\ ClientInit /\ ControllerInit /\ AvatarInit /\ PathInit /\ RestInit

MsgUnchanged == UNCHANGED <<roomVars, clientVars, ctlVars, avatarVars, pathVars, effectVars, linkVars>>

SetRoom ==
  /\ mm' = setRoom(mm)
  /\ UNCHANGED <<calls, lastData, nData>>
  /\ MsgUnchanged
AddJoinedCallback ==
  /\ mm.onPlayerJoinedCallbacks < MaxCallbacks
  /\ mm' = onRemotePlayerJoined(mm)
  /\ UNCHANGED <<calls, lastData, nData>>
  /\ MsgUnchanged
AddLeftCallback ==
  /\ mm.onPlayerLeftCallbacks < MaxCallbacks
  /\ mm' = onRemotePlayerLeft(mm)
  /\ UNCHANGED <<calls, lastData, nData>>
  /\ MsgUnchanged
RegisterRemote ==
  /\ "bob" \notin DOMAIN mm.remotePlayers
  /\ mm' = registerRemotePlayer(mm, "bob")
  /\ UNCHANGED <<calls, lastData, nData>>
  /\ MsgUnchanged
DataReceived ==
  /\ nData < MaxData
  /\ \E data \in DataInputs :
       LET r == onDataReceived(mm, data)
       IN /\ mm' = r.mm
          /\ calls' = calls \o r.calls
          /\ lastData' = data
  /\ nData' = nData + 1
  /\ MsgUnchanged

\* the hook's effect cleanup, or its disconnect(), calls manager.cleanup()
ManagerCleanup ==
  /\ mm' = managerCleanup(mm)
  /\ UNCHANGED <<calls, lastData, nData>>
  /\ MsgUnchanged

MessagesNext ==
  \/ SetRoom
  \/ AddJoinedCallback
  \/ AddLeftCallback
  \/ RegisterRemote
  \/ DataReceived
  \/ ManagerCleanup

SpecMessages == MessagesSpecInit /\ [][MessagesNext]_vars

\* ------------------------------------------------------------------------
\* Specification of the useColyseus effect: the effect runs, is cleaned up
\* and runs again; joins resolve or fail, the first state arrives and
\* room.leave() resolves.  A promise that can settle does settle, and an
\* open connection delivers the first state
\* ------------------------------------------------------------------------
EffectSpecInit == RoomInit(Sessions) /\ ClientInit /\ ControllerInit /\ AvatarInit /\ PathInit /\ RestInit

EffUnchanged == UNCHANGED <<roomVars, clientVars, ctlVars, avatarVars, pathVars, msgVars, linkVars>>

\* room.state.players.size when the hook reads it
PlayerCounts == {1, 2}

RunEffect ==
  /\ effect.started < MaxRuns
  /\ effect.started # 0 => effect.runs[effect.started].disposed
  /\ effect' = runEffect(effect, effect.started + 1)
  /\ EffUnchanged
JoinResolves(r) ==
  /\ effect.runs[r].phase = "joining"
  /\ \E synced \in BOOLEAN, count \in PlayerCounts :
       effect' = joinResolves(effect, r, synced, count)
  /\ EffUnchanged
JoinFails(r) ==
  /\ effect.runs[r].phase = "joining"
  /\ effect' = joinFails(effect, r)
  /\ EffUnchanged
StateArrives(r) ==
  /\ effect.runs[r].phase = "awaitState"
  /\ effect.runs[r].session \in {"joined", "leaving"}
  /\ \E count \in PlayerCounts : effect' = stateArrives(effect, r, count)
  /\ EffUnchanged
Cleanup ==
  /\ effect.started # 0
  /\ ~effect.runs[effect.started].disposed
  /\ effect' = cleanup(effect, effect.started)
  /\ EffUnchanged
LeaveResolves(r) ==
  /\ effect.runs[r].session = "leaving"
  /\ effect' = [effect EXCEPT !.runs[r] = leaveResolved(@)]
  /\ EffUnchanged
\* the page registers a remote player with the manager of run r
RegisterOnRun(r) ==
  /\ effect.runs[r].phase # "idle"
  /\ effect.runs[r].remotePlayers < MaxRegistered
  /\ effect' = [effect EXCEPT !.runs[r] = registerOnRun(@)]
  /\ EffUnchanged

EffectNext ==
  \/ RunEffect
  \/ Cleanup
  \/ \E r \in 1..MaxRuns : JoinResolves(r)
  \/ \E r \in 1..MaxRuns : JoinFails(r)
  \/ \E r \in 1..MaxRuns : StateArrives(r)
  \/ \E r \in 1..MaxRuns : LeaveResolves(r)
  \/ \E r \in 1..MaxRuns : RegisterOnRun(r)

SpecEffect ==
  /\ EffectSpecInit
  /\ [][EffectNext]_vars
  /\ \A r \in 1..MaxRuns :
       /\ WF_vars(JoinResolves(r) \/ JoinFails(r))
       /\ WF_vars(StateArrives(r))
       /\ WF_vars(LeaveResolves(r))

\* ------------------------------------------------------------------------
\* Specification of the path planner: scenes are loaded and disposed of,
\* and one call of the planner, with fixed arguments, is made on the
\* models they give
\* ------------------------------------------------------------------------
\* a point of the ground, coordinates in whole units
Ground(x, z) == V3(x * Scale, 0, z * Scale)
\* MeshBuilder.CreateGround('floor', ...): a mesh without height
Floor == [name |-> "floor", min |-> Ground(-25, -25), max |-> Ground(25, 25)]
\* MeshBuilder.CreateBox('northWall', {width: 50, height: 5, depth: 0.5})
\* at (0, 2.5, 25)
NorthWall ==
  [name |-> "northWall", min |-> V3(-2500, 0, 2475), max |-> V3(2500, 500, 2525)]
\* MeshBuilder.CreateBox(name, {width, height: 3, depth}) standing on the
\* floor, from corner (x0, z0) to corner (x1, z1)
Box(name, x0, z0, x1, z1) ==
  [name |-> name, min |-> Ground(x0, z0), max |-> V3(x1 * Scale, 300, z1 * Scale)]
\* MeshBuilder.CreateCylinder(name, {diameter, height: 4}) standing on the
\* floor
Cylinder(name, x0, z0, x1, z1) ==
  [name |-> name, min |-> Ground(x0, z0), max |-> V3(x1 * Scale, 400, z1 * Scale)]
\* Scenes, as the meshes buildNavMeshFromScene goes through
Scenes ==
  {<<Floor, NorthWall>>,
   <<Floor, Box("obstacle_0", -4, -4, 8, 8)>>,
   <<Floor, NorthWall, Box("obstacle_0", -10, -10, 10, 10)>>,
   <<Floor, Box("obstacle_0", -1, -1, 1, 1)>>,
   <<Floor, Box("obstacle_0", -1, 19, 1, 21), Cylinder("cylinder_0", 0, -1, 2, 1)>>}
\* Positions of the player, and destinations asked for
StartInputs == {Ground(20, 0), Ground(-4, 0)}
EndInputs == {Ground(0, 0), Ground(6, 0), Ground(6, 2)}
\* Points tested, and the margins they are tested with
PointInputs == {Ground(0, 0), Ground(2, 0), V3(250, 0, 0), Ground(-4, 0)}
MarginInputs == {Zero, SightMargin, DefaultMargin}
\* Raw paths handed to smoothPath: the first waypoints, up to MaxPathLen, of
\* three routes
Routes ==
  {<<Ground(0, 5), Ground(-4, 0), Ground(10, 0), Ground(-4, 0)>>,
   <<Ground(-4, 0), Ground(10, 0), Ground(-4, 0), Ground(0, 5)>>,
   <<Ground(2, 4), Ground(-3, 3), Ground(-6, -2), Ground(10, 0)>>}
RawPaths ==
  {SubSeq(route, 1, Min(len, Len(route))) :
     route \in Routes, len \in 1..MaxPathLen}
\* The calls asked for
Requests ==
  {[NoRequest EXCEPT !.kind = "findPath", !.start = start, !.end = end] :
     start \in StartInputs, end \in EndInputs}
  \cup {[NoRequest EXCEPT !.kind = "smoothPath", !.raw = raw] : raw \in RawPaths}
  \cup {[NoRequest EXCEPT !.kind = "getClosestWalkablePosition", !.end = p] :
          p \in PointInputs}
  \cup {[NoRequest EXCEPT !.kind = "isPositionBlocked", !.end = p,
                          !.margin = margin] :
          p \in PointInputs, margin \in MarginInputs}

PathSpecInit ==
  /\ RoomInit(Sessions) /\ ClientInit /\ ControllerInit /\ AvatarInit
  /\ PlannerInit
  /\ request \in Requests
  /\ RestInit

Initialize ==
  /\ \E scene \in Scenes : initialize(scene)
  /\ UNCHANGED <<roomVars, clientVars, ctlVars, avatarVars, restVars>>
Dispose ==
  /\ nav.isInitialized
  /\ dispose
  /\ UNCHANGED <<roomVars, clientVars, ctlVars, avatarVars, restVars>>
FindPath ==
  /\ request.kind = "findPath"
  /\ FindPathCall(request.start, request.end)
  /\ UNCHANGED <<roomVars, clientVars, ctlVars, avatarVars, restVars>>
SmoothPath ==
  /\ request.kind = "smoothPath"
  /\ SmoothPathCall(request.raw)
  /\ UNCHANGED <<roomVars, clientVars, ctlVars, avatarVars, restVars>>
ClosestWalkable ==
  /\ request.kind = "getClosestWalkablePosition"
  /\ ClosestWalkableCall(request.end)
  /\ UNCHANGED <<roomVars, clientVars, ctlVars, avatarVars, restVars>>
IsBlocked ==
  /\ request.kind = "isPositionBlocked"
  /\ IsBlockedCall(request.end, request.margin)
  /\ UNCHANGED <<roomVars, clientVars, ctlVars, avatarVars, restVars>>

PathNext ==
  \/ Initialize
  \/ Dispose
  \/ FindPath
  \/ SmoothPath
  \/ ClosestWalkable
  \/ IsBlocked

SpecPath == PathSpecInit /\ [][PathNext]_vars

\* ------------------------------------------------------------------------
\* Specification of the local player's controller
\* ------------------------------------------------------------------------
ControllerSpecInit == RoomInit(Sessions) /\ ClientInit /\ ControllerInit /\ AvatarInit /\ PathInit /\ RestInit

Click ==
  /\ nClicks < MaxClicks
  /\ \E found \in BOOLEAN, p \in PathInputs : handleClick(found, p)
  /\ UNCHANGED <<roomVars, clientVars, avatarVars, pathVars, restVars>>
Frame == Update /\ UNCHANGED <<roomVars, clientVars, avatarVars, pathVars, restVars>>
DataSend ==
  /\ sendPositionUpdate
  /\ UNCHANGED <<roomVars, clientVars, avatarVars, pathVars, restVars>>
\* useMultiplayer hands its positionUpdateRate option to the manager it has
\* just created, before anything is sent
SetPositionUpdateRate ==
  /\ sentData = <<>>
  /\ \E hz \in RateInputs : setPositionUpdateRate(hz)
  /\ UNCHANGED <<roomVars, clientVars, avatarVars, pathVars, restVars>>
\* The model of the local player arrives, once
ModelArrives ==
  /\ ~mesh
  /\ \E serverPlayer \in ServerPlayerInputs : loadPlayerModel(serverPlayer)
  /\ UNCHANGED <<roomVars, clientVars, avatarVars, pathVars, restVars>>
\* followPath called with a path of several waypoints
FollowPath ==
  /\ nClicks < MaxClicks
  /\ \E p \in RouteInputs : followPath(p)
  /\ nClicks' = nClicks + 1
  /\ lastClick' = "route"
  /\ UNCHANGED <<position, lastPositionUpdate, lastPositionSend,
                 positionSendInterval, mesh, clock, sentPoses, sentData,
                 sentCommands>>
  /\ UNCHANGED <<roomVars, clientVars, avatarVars, pathVars, restVars>>
TimePasses ==
  /\ \E d \in FrameGaps : clock + d <= Epoch + MaxElapsed /\ Wait(d)
  /\ UNCHANGED <<roomVars, clientVars, avatarVars, pathVars, restVars>>

ControllerNext ==
  \/ Click
  \/ Frame
  \/ ModelArrives
  \/ TimePasses

SpecController == ControllerSpecInit /\ [][ControllerNext]_vars

\* The walk alone: clicks, followPath calls, frames, the arrival of the
\* model and the clock, without the data channel of MultiplayerManager.
\* The render loop calls update() on every frame for as long as the page is
\* open
WalkNext ==
  \/ Click
  \/ FollowPath
  \/ Frame
  \/ ModelArrives

\* The data channel of MultiplayerManager alone: the rate is set, poses are
\* handed to sendPositionUpdate and the clock moves on
DataNext ==
  \/ SetPositionUpdateRate
  \/ DataSend
  \/ TimePasses

SpecData == ControllerSpecInit /\ [][DataNext]_vars

SpecWalk == ControllerSpecInit /\ [][WalkNext]_vars /\ WF_vars(Frame)

\* ------------------------------------------------------------------------
\* Specification of the local player and the room together: the session
\* joins, one click starts a walk, and what the controller hands to
\* ColyseusManager travels to the room in the order sent.  The room keeps
\* the coordinates of a pose as they are sent, here in hundredths; the
\* destination of a move is a whole number of units
\* ------------------------------------------------------------------------
LocalSession == SessionId(1)
\* The path of a click along the axis, to a whole unit (a move intent carries
\* the destination)
LinkPaths == {<<1 * Scale>>}
\* Math.random() results of the local player's join: it appears at the
\* origin, on the axis of the walk
LinkRandomInputs == {<<5, 5>>}
\* Milliseconds between two readings of the clock during the walk
LinkGaps == {34}

\* What ColyseusManager puts on the wire for the intents and poses a step
\* has added, intents first: sendMoveCommand, sendStopCommand and
\* sendPositionUpdate return without sending when the manager has no room.
\* l is the state of the browser at the call: a destination lies on the axis
\* of the walk, and a pose carries position.y, position.z and rotation.y
Sent(l, commands, poses) ==
  IF ~l.room
    THEN <<>>
    ELSE [i \in 1..Len(commands) |->
            IF commands[i].kind = "move"
              THEN [type |-> "move", x |-> commands[i].x, z |-> l.z]
              ELSE [type |-> "stop"]]
           \o [i \in 1..Len(poses) |->
                 [type |-> "position", x |-> poses[i].x, y |-> l.y, z |-> l.z,
                  rotationY |-> l.rotationY]]
Added(old, new) == SubSeq(new, Len(old) + 1, Len(new))

\* the room runs onJoin for the request of the local browser
LinkJoin ==
  /\ LocalSession \notin clients
  /\ \E o \in JoinOptions, rnd \in LinkRandomInputs : onJoin(LocalSession, o, rnd)
  /\ UNCHANGED <<clientVars, ctlVars, avatarVars, pathVars, msgVars, effectVars, linkVars>>
\* client.joinOrCreate resolves in the browser: the manager has its room
LinkConnected ==
  /\ LocalSession \in clients
  /\ ~link.room
  /\ link' = [link EXCEPT !.room = TRUE]
  /\ UNCHANGED <<roomVars, clientVars, ctlVars, avatarVars, pathVars, msgVars,
                 effectVars, wire>>
LinkClick ==
  /\ nClicks = 0
  /\ \E found \in BOOLEAN, p \in LinkPaths : handleClick(found, p)
  /\ wire' = wire \o Sent(link, Added(sentCommands, sentCommands'), <<>>)
  /\ link' = link
  /\ UNCHANGED <<roomVars, clientVars, avatarVars, pathVars, msgVars, effectVars>>
\* PlayerController.update with what it sends: a frame that moves the player
\* turns it toward the direction of the step, Math.atan2(direction.x,
\* direction.z), a quarter turn to either side on this axis
LinkFrame ==
  /\ Update
  /\ \E turned \in {IF position' # position
                       THEN [link EXCEPT !.rotationY =
                               lerpAngle(@, IF position' > position
                                              THEN HalfPI
                                              ELSE FNeg(HalfPI),
                                         rotationSpeed)]
                       ELSE link} :
       LET commands == Added(sentCommands, sentCommands')
       IN /\ wire' = wire \o Sent(turned, commands, Added(sentPoses, sentPoses'))
          /\ link' = [turned EXCEPT !.stopSent = IF commands # <<>> THEN link.room ELSE @]
  /\ UNCHANGED <<roomVars, clientVars, avatarVars, pathVars, msgVars, effectVars>>
\* The model of the local player arrives, once: the position becomes the
\* origin and then, when the manager has a room whose state holds this
\* player, the position the state holds for it, taken as the room has it
LinkModelArrives ==
  /\ ~mesh
  /\ LET synced == link.room /\ LocalSession \in DOMAIN players
     IN /\ loadPlayerModel(IF synced
                             THEN [present |-> TRUE, x |-> players[LocalSession].x]
                             ELSE NoPlayer)
        /\ link' = [link EXCEPT !.y = IF synced THEN players[LocalSession].y ELSE 0,
                                !.z = IF synced THEN players[LocalSession].z ELSE 0]
  /\ UNCHANGED <<roomVars, clientVars, avatarVars, pathVars, msgVars, effectVars, wire>>
LinkTimePasses ==
  /\ \E d \in LinkGaps : clock + d <= Epoch + MaxElapsed /\ Wait(d)
  /\ UNCHANGED <<roomVars, clientVars, avatarVars, pathVars, restVars>>
\* the room handles the oldest message on the way
Deliver ==
  /\ wire # <<>>
  /\ LET m == Head(wire)
     IN IF m.type = "move"
          THEN onMove(LocalSession, m.x \div Scale, m.z \div Scale)
          ELSE IF m.type = "position"
                 THEN onPosition(LocalSession, m.x, m.y, m.z, m.rotationY)
                 ELSE onStop(LocalSession)
  /\ wire' = Tail(wire)
  /\ UNCHANGED <<clientVars, ctlVars, avatarVars, pathVars, msgVars, effectVars, link>>

LinkNext ==
  \/ LinkJoin
  \/ LinkConnected
  \/ LinkClick
  \/ LinkFrame
  \/ LinkModelArrives
  \/ LinkTimePasses
  \/ Deliver

SpecLink == ControllerSpecInit /\ [][LinkNext]_vars

\* ------------------------------------------------------------------------
\* Specification of one RemotePlayer object: updates arrive through
\* receiveUpdate (MultiplayerManager.handlePositionUpdate) and through
\* updateFromSchema (ColyseusManager.updateRemotePlayers) while loadModel
\* awaits the asset, and after it
\* ------------------------------------------------------------------------
AvatarSpecInit == RoomInit(Sessions) /\ ClientInit /\ ControllerInit /\ AvatarInit /\ PathInit /\ RestInit

\* Updates a remote player's state can produce
AvatarUpdates ==
  {[x |-> One, y |-> Zero, z |-> Two, rotationY |-> One, animation |-> "walk",
    timestamp |-> 2],
   [x |-> FInt(3), y |-> Zero, z |-> Two, rotationY |-> Two, animation |-> "idle",
    timestamp |-> 1]}

\* Milliseconds between two updates of a burst, and of a stall
BurstMs == 5
StallMs == 150

AvatarRest == UNCHANGED <<roomVars, clientVars, ctlVars, pathVars, restVars>>

\* An update that reports an animation other than the playing one while the
\* model is loading is noted as a request
Noted(upd) ==
  /\ nUpdates' = nUpdates + 1
  /\ requested' = IF ~avatar.modelLoaded /\ upd.animation # avatar.currentAnimation
                    THEN Append(requested, upd.animation)
                    ELSE requested
  /\ received' = Append(received, upd)
  /\ lastAvatarOp' = "update"
  /\ UNCHANGED nFrames

\* The object is in the registry of one manager: of the one that feeds it
HeldBy(class) ==
  /\ manager \in {"none", class}
  /\ manager' = class

\* MultiplayerManager.handlePositionUpdate hands the update to receiveUpdate
Received(upd) ==
  /\ HeldBy("MultiplayerManager")
  /\ avatar' = receiveUpdate(avatar, upd, clock)
  /\ Noted(upd)
  /\ AvatarRest
\* ColyseusManager.updateRemotePlayers in a render frame: updateFromSchema
\* with the player's entry of room.state, then update
Synchronized(upd) ==
  /\ HeldBy("ColyseusManager")
  /\ avatar' = The({update(aimed, FrameSeconds, clock) :
                      aimed \in {updateFromSchema(avatar, upd, clock)}})
  /\ Noted(upd)
  /\ AvatarRest
\* SceneLoader.ImportMeshAsync resolves and loadModel runs to its end
Loaded(groups) ==
  /\ ~avatar.modelLoaded
  /\ avatar' = loadModel(avatar, groups)
  /\ lastAvatarOp' = "loadModel"
  /\ UNCHANGED <<requested, nUpdates, received, nFrames, manager>>
  /\ AvatarRest
\* updateRemotePlayers in a render frame (in ColyseusManager when room.state
\* has no entry for the player): RemotePlayer.update, which returns at once
\* without a mesh
Rendered ==
  /\ avatar.modelLoaded
  /\ avatar' = update(avatar, FrameSeconds, clock)
  /\ lastAvatarOp' = "frame"
  /\ nFrames' = nFrames + 1
  /\ UNCHANGED <<requested, nUpdates, received, manager>>
  /\ AvatarRest

\* x without its sign
FAbs(x) == [x EXCEPT !.neg = FALSE]
\* The width of the world
Width == FInt(AREA_SIZE)
\* The target is, on every axis, within the width of the world of the
\* position last received
NearLast ==
  IF received = <<>> THEN TRUE
  ELSE LET last == received[Len(received)]
           lastPos == <<last.x, last.y, last.z>>
       IN \A i \in 1..3 :
            \E gap \in {FSub(avatar.targetPosition[i], lastPos[i])} :
              ~FLess(Width, FAbs(gap))

ReceiveUpdate ==
  /\ nUpdates < MaxUpdates
  /\ \E upd \in AvatarUpdates : Received(upd)
UpdateFromSchema ==
  /\ nUpdates < MaxUpdates
  /\ \E upd \in AvatarUpdates : Synchronized(upd)
LoadCompletes == \E groups \in AssetInputs : Loaded(groups)
\* render frames run at any time, before, between and after the updates
AvatarFrame ==
  /\ nFrames < MaxAvatarFrames
  /\ Rendered
\* Date.now() moves on between two updates that arrive in a burst
AvatarTick ==
  /\ clock + BurstMs <= Epoch + MaxAvatarElapsed
  /\ Wait(BurstMs)
  /\ UNCHANGED <<roomVars, clientVars, avatarVars, pathVars, restVars>>
\* Updates stall: nothing arrives for StallMs milliseconds
Stall ==
  /\ clock <= Epoch + MaxAvatarElapsed
  /\ received # <<>>
  /\ Wait(StallMs)
  /\ UNCHANGED <<roomVars, clientVars, avatarVars, pathVars, restVars>>

AvatarNext ==
  \/ ReceiveUpdate
  \/ UpdateFromSchema
  \/ LoadCompletes
  \/ AvatarFrame
  \/ AvatarTick
  \/ Stall

SpecAvatar == AvatarSpecInit /\ [][AvatarNext]_vars

\* ------------------------------------------------------------------------
\* Specification of the smoothing of one RemotePlayer: its model loads,
\* the viewer sets the smoothing fraction, targets arrive and frames are
\* rendered on them
\* ------------------------------------------------------------------------
\* Values handed to setInterpolationSpeed
SpeedInputs == {Zero, Half, One, FInt(3)}
\* Targets: positions written with two decimals
TargetInputs ==
  {[x |-> Num(3), y |-> Zero, z |-> Num(2500), rotationY |-> One,
    animation |-> "walk", timestamp |-> 1],
   [x |-> Num(30), y |-> Zero, z |-> Num(10), rotationY |-> FInt(-3),
    animation |-> "walk", timestamp |-> 2]}

ReceiveTarget ==
  /\ nUpdates < MaxTargets
  /\ \E upd \in TargetInputs : Received(upd)
StandardLoadCompletes == Loaded(StandardAsset)
SmoothFrame ==
  /\ nFrames < MaxSmoothFrames
  /\ Rendered
\* The viewer configures the smoothing fraction, once
SetInterpolationSpeed ==
  /\ avatar.interpolationSpeed = interpolationSpeed
  /\ \E speed \in SpeedInputs :
       avatar' = setInterpolationSpeed(avatar, speed)
  /\ lastAvatarOp' = "setInterpolationSpeed"
  /\ UNCHANGED <<requested, nUpdates, received, nFrames, manager>>
  /\ AvatarRest

SmoothNext ==
  \/ ReceiveTarget
  \/ StandardLoadCompletes
  \/ SmoothFrame
  \/ SetInterpolationSpeed

SpecSmooth == AvatarSpecInit /\ [][SmoothNext]_vars

\* ------------------------------------------------------------------------
\* Specification of the dead reckoning of one RemotePlayer: its model
\* loads, updates arrive in a burst and stall, and frames are rendered
\* until the target has left the world
\* ------------------------------------------------------------------------
ReceiveInBurst ==
  /\ nUpdates < MaxTargets
  /\ \E upd \in AvatarUpdates : Received(upd)
ReckonFrame ==
  /\ nFrames < MaxReckonFrames
  /\ NearLast
  /\ Rendered

ReckonNext ==
  \/ ReceiveInBurst
  \/ StandardLoadCompletes
  \/ ReckonFrame
  \/ AvatarTick
  \/ Stall

SpecReckon == AvatarSpecInit /\ [][ReckonNext]_vars

\* ------------------------------------------------------------------------
\* Specification of the clients of one room: connecting, state
\* synchronisation, playerJoined delivery, render frames, and position
\* reports handled by the room
\* ------------------------------------------------------------------------
\* The transport hands out fresh session ids, one after the other
NextSession == SessionId(Cardinality(clients \cup left) + 1)

RECURSIVE SumOver(_, _)
\* Sum of f over the set S
SumOver(f, S) ==
  IF S = {} THEN 0
  ELSE LET e == CHOOSE x \in S : TRUE IN f[e] + SumOver(f, S \ {e})

ClientSpecInit == RoomInit(Sessions) /\ ClientInit /\ ControllerInit /\ AvatarInit /\ PathInit /\ RestInit

\* Browsers act on one another only through the room, and the room reads
\* nothing of a browser's state; one browser, any of the sessions, is
\* followed and the other players are sessions of the room
Observed == {c \in Sessions : hook[c] # "off"}
\* The playerName option of the hook ("" when the page gives none), and the
\* Math.random() of the generated name, in sixteenths (0.5)
PlayerNameInputs == {"", "Ann"}
NameRandom == 8

\* The followed browser opens the page: its hook asks to join and the room
\* runs onJoin
CJoin ==
  /\ NextSession \in Sessions
  /\ Observed = {}
  /\ HookConnect(NextSession)
  /\ \E playerName \in PlayerNameInputs :
       onJoin(NextSession, ConnectOptions(playerName, "", NameRandom), <<5, 5>>)
  /\ UNCHANGED <<ctlVars, avatarVars, pathVars, restVars>>
\* Another player joins the room; its browser is not followed
CPeerJoin ==
  /\ NextSession \in Sessions
  /\ onJoin(NextSession, ConnectOptions("", "", NameRandom), <<5, 5>>)
  /\ UNCHANGED <<clientVars, ctlVars, avatarVars, pathVars, restVars>>
\* Another player, whose browser is not followed, leaves the room
CPeerLeave ==
  /\ nOps < MaxClientOps
  /\ \E c \in clients : hook[c] = "off" /\ onLeave(c)
  /\ UNCHANGED <<clientVars, ctlVars, avatarVars, pathVars, restVars>>
CJoinResolved ==
  \E c \in Sessions, state \in {NoState, Synced(<<>>), Synced(players)} :
    JoinResolved(c, state) /\ UNCHANGED <<roomVars, ctlVars, avatarVars, pathVars, restVars>>
CStateSync == \E c \in Sessions : StateSync(c) /\ UNCHANGED <<roomVars, ctlVars, avatarVars, pathVars, restVars>>
CDeliverJoined == \E c \in Sessions : DeliverJoined(c) /\ UNCHANGED <<roomVars, ctlVars, avatarVars, pathVars, restVars>>
CRetryTimer == \E c \in Sessions : RetryTimer(c) /\ UNCHANGED <<roomVars, ctlVars, avatarVars, pathVars, restVars>>
CModelLoaded == \E c \in Sessions : ModelLoaded(c) /\ UNCHANGED <<roomVars, ctlVars, avatarVars, pathVars, restVars>>
CFrame ==
  \E c \in Sessions :
    /\ SumOver(frames, Sessions) < MaxFrames
    /\ updateRemotePlayers(c, FrameSeconds)
    /\ UNCHANGED <<roomVars, ctlVars, avatarVars, pathVars, restVars>>
CPosition ==
  /\ nOps < MaxClientOps
  /\ \E s \in clients, p \in PositionInputs : onPosition(s, p[1], p[2], p[3], p[4])
  /\ UNCHANGED <<clientVars, ctlVars, avatarVars, pathVars, restVars>>
CGone ==
  /\ nOps < MaxClientOps
  /\ \E c \in clients : ClientGone(c)
CLost ==
  /\ nOps < MaxClientOps
  /\ \E c \in clients : ConnectionLost(c)

ClientNext ==
  \/ CJoin
  \/ CPeerJoin
  \/ CPeerLeave
  \/ CJoinResolved
  \/ CStateSync
  \/ CDeliverJoined
  \/ CRetryTimer
  \/ CModelLoaded
  \/ CFrame
  \/ CPosition
  \/ CGone
  \/ CLost

SpecClient == ClientSpecInit /\ [][ClientNext]_vars

\* The transport keeps delivering state messages to a connected client
SpecClientFair ==
  /\ SpecClient
  /\ \A c \in Sessions : WF_vars(StateSync(c) /\ UNCHANGED <<roomVars, ctlVars, avatarVars, pathVars, restVars>>)

\* ------------------------------------------------------------------------
\* Specification of the room: any bounded sequence of joins, leaves and
\* messages (the clients are not modelled: their state stays idle)
\* ------------------------------------------------------------------------
Init == RoomInit(Sessions) /\ ClientInit /\ ControllerInit /\ AvatarInit /\ PathInit /\ RestInit


Join ==
  /\ nOps < MaxOps
  /\ NextSession \in Sessions
  /\ \E o \in JoinOptions, rnd \in RandomInputs : onJoin(NextSession, o, rnd)
  /\ UNCHANGED <<clientVars, ctlVars, avatarVars, pathVars, restVars>>
Leave ==
  /\ nOps < MaxOps
  /\ \E s \in Sessions : onLeave(s)
  /\ UNCHANGED <<clientVars, ctlVars, avatarVars, pathVars, restVars>>
Move ==
  /\ nOps < MaxOps
  /\ \E s \in Sessions, m \in MoveInputs : onMove(s, m[1], m[2])
  /\ UNCHANGED <<clientVars, ctlVars, avatarVars, pathVars, restVars>>
Position ==
  /\ nOps < MaxOps
  /\ \E s \in Sessions, p \in PositionInputs : onPosition(s, p[1], p[2], p[3], p[4])
  /\ UNCHANGED <<clientVars, ctlVars, avatarVars, pathVars, restVars>>
Stop ==
  /\ nOps < MaxOps
  /\ \E s \in Sessions : onStop(s)
  /\ UNCHANGED <<clientVars, ctlVars, avatarVars, pathVars, restVars>>
SimulationTick == Tick(TickMs) /\ UNCHANGED <<clientVars, ctlVars, avatarVars, pathVars, restVars>>
ClockAdvance == Elapse(1) /\ UNCHANGED <<clientVars, ctlVars, avatarVars, pathVars, restVars>>

Next ==
  \/ Join
  \/ Leave
  \/ Move
  \/ Position
  \/ Stop
  \/ SimulationTick
  \/ ClockAdvance

Spec == Init /\ [][Next]_vars

\* ------------------------------------------------------------------------
\* Specification of the capacity scenario: sessions connect one after the
\* other until the room is full and beyond
\* ------------------------------------------------------------------------
CapInit == RoomInit(CapSessions) /\ ClientInit /\ ControllerInit /\ AvatarInit /\ PathInit /\ RestInit

CapJoin ==
  /\ NextSession \in CapSessions
  /\ HasSeat
  /\ onJoin(NextSession, [name |-> "", modelPath |-> ""], <<5, 5>>)
  /\ UNCHANGED <<clientVars, ctlVars, avatarVars, pathVars, restVars>>
CapJoinRejected ==
  /\ NextSession \in CapSessions
  /\ JoinRejected(NextSession)
  /\ UNCHANGED <<clientVars, ctlVars, avatarVars, pathVars, restVars>>
CapLeave ==
  /\ Cardinality(left) < MaxCapLeaves
  /\ \E s \in clients : onLeave(s)
  /\ UNCHANGED <<clientVars, ctlVars, avatarVars, pathVars, restVars>>

CapNext ==
  \/ CapJoin
  \/ CapJoinRejected
  \/ CapLeave

SpecCapacity == CapInit /\ [][CapNext]_vars

\* ------------------------------------------------------------------------
\* Specification of the roster scenario: players join one after the other,
\* with or without requesting a name and an avatar, and some leave
\* ------------------------------------------------------------------------
RosterInit == RoomInit(RosterSessions) /\ ClientInit /\ ControllerInit /\ AvatarInit /\ PathInit /\ RestInit

RosterJoin ==
  /\ NextSession \in RosterSessions
  /\ \E o \in JoinOptions, rnd \in RandomInputs : onJoin(NextSession, o, rnd)
  /\ UNCHANGED <<clientVars, ctlVars, avatarVars, pathVars, restVars>>
RosterLeave ==
  /\ Cardinality(left) < MaxCapLeaves
  /\ \E s \in clients : onLeave(s)
  /\ UNCHANGED <<clientVars, ctlVars, avatarVars, pathVars, restVars>>

RosterNext ==
  \/ RosterJoin
  \/ RosterLeave

SpecRoster == RosterInit /\ [][RosterNext]_vars

\* ========================================================================
\* Properties of the room
\* ========================================================================
HalfArea == 25
InBounds(v) == -HalfArea <= v /\ v <= HalfArea
Clamped(v) == IF v < -HalfArea THEN -HalfArea ELSE IF v > HalfArea THEN HalfArea ELSE v
AcceptedBy(kind) == lastOp.kind = kind /\ lastOp.ok

\* C1: a 'move' (x, z) from a session that has a player is never rejected,
\* and right after it destX is x clamped into [-25, 25] and destZ is z
\* clamped into [-25, 25], each axis on its own.
C1_MoveClamped ==
  lastOp.kind = "move" =>
    IF lastOp.sid \in DOMAIN players
      THEN /\ lastOp.ok
           /\ players[lastOp.sid].destX = Clamped(lastOp.args[1])
           /\ players[lastOp.sid].destZ = Clamped(lastOp.args[2])
      ELSE ~lastOp.ok

\* a move with x above the area and z below it has just been applied
C1_Witness ==
  /\ AcceptedBy("move")
  /\ lastOp.args[1] > HalfArea /\ lastOp.args[2] < -HalfArea
  /\ players[lastOp.sid].destX = HalfArea
  /\ players[lastOp.sid].destZ = -HalfArea

\* C2 (as claimed): every player's position is inside the world bounds in
\* every reachable state.
C2_PositionAlwaysInBounds ==
  \A s \in DOMAIN players : InBounds(players[s].x) /\ InBounds(players[s].z)

\* C2 (amended): a player's position is inside the world bounds when it
\* joins, and the only step that takes it outside is a 'position' message
\* whose reported coordinates are outside; the room stores them verbatim.
C2_PositionLeavesBoundsOnlyByReport ==
  [][\A s \in DOMAIN players' :
       \/ InBounds(players'[s].x) /\ InBounds(players'[s].z)
       \/ /\ s \in DOMAIN players
          /\ ~(InBounds(players[s].x) /\ InBounds(players[s].z))
       \/ /\ nOps' = nOps + 1
          /\ lastOp'.kind = "position" /\ lastOp'.sid = s
          /\ ~(InBounds(lastOp'.args[1]) /\ InBounds(lastOp'.args[3]))
          /\ players'[s].x = lastOp'.args[1]
          /\ players'[s].z = lastOp'.args[3]]_vars

\* a player that spawned off-centre has been sent out of range by a move
\* and is still inside the bounds
C2_Witness ==
  /\ AcceptedBy("move")
  /\ ~InBounds(lastOp.args[1])
  /\ players[lastOp.sid].x = -5 /\ players[lastOp.sid].z = 4

\* C3: the key set of the players map is the set of connected session ids.
C3_PlayersAreConnectedSessions == DOMAIN players = clients

\* one session has left while another is still connected
C3_Witness == left # {} /\ clients # {} /\ lastOp.kind = "leave"

CountJoined(msgs, a) ==
  Cardinality({i \in 1..Len(msgs) :
                 msgs[i].type = "playerJoined" /\ msgs[i].sessionId = a})

\* C4: when A joins, the room sends exactly one playerJoined about A to each
\* session connected before A, none to A and none to anybody else.
C4_JoinedSentOncePerPeer ==
  \A a \in DOMAIN seenAtJoin : \A r \in DOMAIN outbox :
    CountJoined(outbox[r], a) = IF r # a /\ r \in seenAtJoin[a] THEN 1 ELSE 0

\* the second session has joined: the first was told once, the joiner not
C4_Witness ==
  \E a \in clients, b \in clients :
    /\ a # b /\ b \in seenAtJoin[a]
    /\ CountJoined(outbox[b], a) = 1
    /\ CountJoined(outbox[a], a) = 0

MutationStep ==
  /\ nOps' = nOps + 1
  /\ lastOp'.kind \in {"move", "position", "stop"} /\ lastOp'.ok

\* C9 (as claimed): every accepted move, position or stop sets the player's
\* timestamp to a value strictly greater than before.
C9_TimestampStrictlyIncreases ==
  [][MutationStep =>
       players'[lastOp'.sid].timestamp > players[lastOp'.sid].timestamp]_vars

\* C9 (amended): an accepted move or position sets the player's timestamp
\* to the authority's clock reading, a stop leaves it as it is; a player's
\* timestamp never decreases.
C9_TimestampNonDecreasing ==
  [][/\ \A s \in DOMAIN players \cap DOMAIN players' :
          players'[s].timestamp >= players[s].timestamp
     /\ (MutationStep /\ lastOp'.kind # "stop") =>
          players'[lastOp'.sid].timestamp = now
     /\ (MutationStep /\ lastOp'.kind = "stop") =>
          players'[lastOp'.sid].timestamp = players[lastOp'.sid].timestamp]_vars

\* a player stamped at a clock reading after its join has just been stopped
C9_Witness ==
  /\ AcceptedBy("stop")
  /\ players[lastOp.sid].timestamp > 0

\* ------------------------------------------------------------------------
\* Clients of the room
\* ------------------------------------------------------------------------
\* remotePlayers.has(sessionId) on client c
hasRemotePlayer(c, a) == a \in DOMAIN remotePlayers[c]

\* Client c is connected and has nothing in flight: its connect() is done,
\* its copy of the state is the room's, every playerJoined message sent to
\* it has arrived and no checkPlayer retry is pending
Settled(c) ==
  /\ c \in clients
  /\ hook[c] = "ready"
  /\ roomState[c] = Synced(players)
  /\ delivered[c] = Len(outbox[c])
  /\ timers[c] = {}

\* C5: on each client the join callback fires exactly once for every other
\* player in the room, those already present at connect included: never
\* more than once, and once nothing is in flight any more it has fired for
\* every other connected player.
C5_JoinCallbackOncePerPeer ==
  \A c \in Sessions :
    /\ \A s \in Sessions \ {c} : joinFired[c][s] <= 1
    /\ Settled(c) => \A s \in clients \ {c} : joinFired[c][s] = 1

\* C6: once a client's state has caught up with a leave, it has no
\* RemotePlayer for the player that left, and that stays so; and whenever
\* connected clients hold RemotePlayers for players that left, a moment
\* follows at which none of them does.
C6_LeaveCleanup ==
  /\ [](\A c \in Sessions, a \in Sessions :
          (/\ c \in clients
           /\ a \in left
           /\ roomState[c].synced
           /\ a \notin DOMAIN roomState[c].players)
          => ~hasRemotePlayer(c, a))
  /\ (\E c \in clients, a \in left : hasRemotePlayer(c, a))
       ~> ~(\E c \in clients, a \in left : hasRemotePlayer(c, a))

C6_Witness ==
  \E c \in Sessions, a \in Sessions :
    /\ c \in clients
    /\ a \in left
    /\ joinFired[c][a] = 1
    /\ roomState[c].synced
    /\ a \notin DOMAIN roomState[c].players
    /\ ~hasRemotePlayer(c, a)

\* The exact difference x - y of two doubles: its sign, and its magnitude
\* man * 2^exp, not rounded
Exactly(x, y) ==
  LET e == Min(x.exp, y.exp)
      a == BShl(x.man, x.exp - e)
      b == BShl(y.man, y.exp - e)
  IN IF IsZero(y) THEN [neg |-> x.neg, exp |-> e, man |-> a]
     ELSE IF IsZero(x) THEN [neg |-> ~y.neg, exp |-> e, man |-> b]
     ELSE IF x.neg # y.neg THEN [neg |-> x.neg, exp |-> e, man |-> BAdd(a, b)]
     ELSE IF a = b THEN [neg |-> FALSE, exp |-> e, man |-> <<>>]
     ELSE IF BLess(a, b) THEN [neg |-> ~x.neg, exp |-> e, man |-> BSub(b, a)]
     ELSE [neg |-> x.neg, exp |-> e, man |-> BSub(a, b)]
\* |p| < |q| for two such numbers
Smaller(p, q) ==
  LET e == Min(p.exp, q.exp)
  IN BLess(BShl(p.man, p.exp - e), BShl(q.man, q.exp - e))
\* p * 2^k
Doubled(p, k) == [p EXCEPT !.exp = @ + k]
\* q is nearer to t than p is, or both are t
Closer(p, q, t) ==
  IF p = t THEN q = t ELSE Smaller(Exactly(t, q), Exactly(t, p))
\* The angle still to turn from the angle p to the angle t, as lerp
\* measures it
Turn(p, t) == FAbs(Wrapped(FSub(t, p)))
\* the rotation q is nearer to the angle t than p is, or both are t
Turned(p, q, t) == IF p = t THEN q = t ELSE FLess(Turn(q, t), Turn(p, t))
\* The pose of an entry of the room state, in the numbers of the browser
PoseOf(p) ==
  [targetPosition |-> <<FInt(p.x), FInt(p.y), FInt(p.z)>>,
   targetRotation |-> FInt(p.rotationY)]
\* The target of a RemotePlayer
Aim(rp) ==
  [targetPosition |-> rp.targetPosition, targetRotation |-> rp.targetRotation]

SendsKeepInterval ==
  \A i \in 2..Len(sentData) :
    /\ (sentData[i].t - sentData[i - 1].t) * sentData[i].interval[2]
         >= sentData[i].interval[1]
    /\ sentData[i].interval = <<50, 1>>
         => sentData[i].t - sentData[i - 1].t >= 50
    /\ sentData[i].t - sentData[i - 1].t >= 10

\* C10: a pose update of the local player that is not forced is sent only
\* while the player is moving and only if at least 50 ms have passed since
\* the pose update sent before it, forced or not
C10_ThrottledPoseUpdates ==
  \A i \in 1..Len(sentPoses) :
    ~sentPoses[i].force =>
      /\ sentPoses[i].moving
      /\ i > 1 => sentPoses[i].t - sentPoses[i - 1].t >= 50

C10_Witness ==
  /\ \E i \in 2..Len(sentPoses) :
       /\ sentPoses[i - 1].force
       /\ ~sentPoses[i].force
  /\ \E i \in 2..Len(sentPoses) :
       /\ ~sentPoses[i - 1].force
       /\ ~sentPoses[i].force

\* ------------------------------------------------------------------------
\* Forced pose updates
\* ------------------------------------------------------------------------
\* This step hands a forced pose update, stamped with the current time, to
\* the manager
ForcedPoseSent ==
  /\ Len(sentPoses') = Len(sentPoses) + 1
  /\ sentPoses'[Len(sentPoses')].force
  /\ sentPoses'[Len(sentPoses')].t = clock

\* C11: a forced pose update is emitted at the instant movement starts and
\* at the instant it stops: every step on which isMoving turns true and
\* every step on which it turns false sends one.
C11_ForcedAtStartAndStop ==
  [][/\ (~isMoving /\ isMoving') => ForcedPoseSent
     /\ (isMoving /\ ~isMoving') => ForcedPoseSent]_vars

\* ------------------------------------------------------------------------
\* Per-player state on the authority
\* ------------------------------------------------------------------------
\* The step handles a message of the given kind from session s that the
\* room accepts
Accepts(kind, s) ==
  /\ nOps' = nOps + 1
  /\ lastOp'.kind = kind /\ lastOp'.sid = s /\ lastOp'.ok

\* C12: a player joins not moving; an accepted move makes it moving with
\* animation walk, an accepted stop makes it not moving with animation
\* idle, and nothing else changes isMoving.  Hence isMoving holds iff the
\* player's most recent move-or-stop message was a move.
C12_MovingIffLastWasMove ==
  [][\A s \in DOMAIN players' :
       IF s \notin DOMAIN players
         THEN ~players'[s].isMoving
       ELSE IF Accepts("move", s)
         THEN players'[s].isMoving /\ players'[s].animation = "walk"
       ELSE IF Accepts("stop", s)
         THEN ~players'[s].isMoving /\ players'[s].animation = "idle"
       ELSE players'[s].isMoving = players[s].isMoving]_vars

C12_Witness ==
  /\ AcceptedBy("stop")
  /\ lastOp.sid \in DOMAIN players
  /\ ~players[lastOp.sid].isMoving
  /\ players[lastOp.sid].animation = "idle"
  /\ players[lastOp.sid].destX # 0

\* C13: an accepted stop clears the player's destination: destX and destZ
\* are back at the values of a player that has no destination.
C13_StopClearsDestination ==
  [][\A s \in DOMAIN players' :
       Accepts("stop", s) =>
         /\ players'[s].destX = NewPlayer.destX
         /\ players'[s].destZ = NewPlayer.destZ]_vars

\* C14: an accepted position message is applied verbatim: afterwards the
\* player's x, y, z and rotationY are the reported values, in or out of
\* the world bounds.
C14_PositionVerbatim ==
  [][\A s \in DOMAIN players' :
       Accepts("position", s) =>
         /\ players'[s].x = lastOp'.args[1]
         /\ players'[s].y = lastOp'.args[2]
         /\ players'[s].z = lastOp'.args[3]
         /\ players'[s].rotationY = lastOp'.args[4]]_vars

C14_Witness ==
  /\ AcceptedBy("position")
  /\ lastOp.args = <<30, 0, -40, 3>>
  /\ lastOp.sid \in DOMAIN players
  /\ players[lastOp.sid].x = 30
  /\ players[lastOp.sid].z = -40
  /\ players[lastOp.sid].rotationY = 3

\* C15: a move, position or stop message from a session that has no entry
\* in the players map is dropped: the map, and with it every player's
\* fields, is unchanged and no entry is created.
C15_UnknownPlayerDropped ==
  [][(/\ nOps' = nOps + 1
      /\ lastOp'.kind \in {"move", "position", "stop"}
      /\ lastOp'.sid \notin DOMAIN players)
     => (players' = players /\ ~lastOp'.ok)]_vars

C15_Witness ==
  /\ lastOp.kind \in {"move", "position", "stop"}
  /\ ~lastOp.ok
  /\ lastOp.sid \in left
  /\ lastOp.sid \notin DOMAIN players
  /\ players # <<>>

\* C16: right after a join the new player is in the players map under the
\* joining session's id, with animation walk, isMoving false and a spawn
\* position inside the world bounds.
C16_JoinedPlayerState ==
  [][\A s \in Sessions \cup CapSessions :
       Accepts("join", s) =>
         /\ s \in DOMAIN players'
         /\ s \notin DOMAIN players
         /\ players'[s].id = s
         /\ players'[s].animation = "walk"
         /\ ~players'[s].isMoving
         /\ InBounds(players'[s].x)
         /\ InBounds(players'[s].z)]_vars

C16_Witness ==
  /\ AcceptedBy("join")
  /\ lastOp.sid \in DOMAIN players
  /\ players[lastOp.sid].animation = "walk"
  /\ ~players[lastOp.sid].isMoving
  /\ players[lastOp.sid].x = -5
  /\ players[lastOp.sid].z = 4
  /\ Cardinality(DOMAIN players) = 2

\* ------------------------------------------------------------------------
\* Avatars and profiles in join order
\* ------------------------------------------------------------------------
\* Position of a session in join order
JoinIndex(s) == CHOOSE i \in 1..(maxClients + ExtraSessions + NumRosterJoins) : SessionId(i) = s
Catalog == {AVAILABLE_MODELS[i] : i \in 1..Len(AVAILABLE_MODELS)}
\* Number of players that joined before s and were given a catalog entry
CatalogRank(s) ==
  Cardinality({t \in DOMAIN players :
                 JoinIndex(t) < JoinIndex(s) /\ players[t].modelPath \in Catalog})

\* C17: a join that requests an avatar gets exactly that avatar and leaves
\* the shared counter alone; a join that requests none gets the catalog
\* entry at the counter modulo the catalog size and advances the counter by
\* one; the counter starts at 0 and nothing else changes it.  While nobody
\* has left, the k-th player served from the catalog therefore holds entry
\* ((k - 1) mod size) + 1: cyclic order, wrapping after the last entry.
C17_AvatarRoundRobin ==
  /\ modelIndex = 0
  /\ [][/\ \A s \in RosterSessions :
             Accepts("join", s) =>
               IF lastOp'.args[2] # ""
                 THEN /\ players'[s].modelPath = lastOp'.args[2]
                      /\ modelIndex' = modelIndex
                 ELSE /\ players'[s].modelPath =
                           AVAILABLE_MODELS[(modelIndex % Len(AVAILABLE_MODELS)) + 1]
                      /\ modelIndex' = modelIndex + 1
        /\ (lastOp'.kind # "join" \/ nOps' = nOps) => modelIndex' = modelIndex
        /\ left' = {} =>
             \A s \in DOMAIN players' :
               players'[s].modelPath \in Catalog =>
                 players'[s].modelPath =
                   AVAILABLE_MODELS[(Cardinality({t \in DOMAIN players' :
                       /\ JoinIndex(t) < JoinIndex(s)
                       /\ players'[t].modelPath \in Catalog})
                     % Len(AVAILABLE_MODELS)) + 1]
       ]_vars

\* three players were served from the catalog, the third one wrapping to
\* the first entry, and one player got the avatar it asked for
C17_Witness ==
  /\ left = {}
  /\ Cardinality(DOMAIN players) = 4
  /\ \E s \in DOMAIN players :
       /\ CatalogRank(s) = 2
       /\ players[s].modelPath = AVAILABLE_MODELS[1]
  /\ \E s \in DOMAIN players : players[s].modelPath = "/models/Custom.glb"

\* Size of the static profile table
ProfileCount == 8

\* C18: every player holds the profile slot of its place in join order:
\* the first joiner 0, the second 1, and so on, wrapping at the table size
C18_ProfileRoundRobin ==
  \A s \in DOMAIN players :
    players[s].profileIndex = (JoinIndex(s) - 1) % ProfileCount

\* C19: a player's id, name, modelPath and profileIndex are fixed at join:
\* no step of the room (move, position, stop, tick, clock, another
\* session's join or leave) changes them while the player is in the room
C19_IdentityImmutable ==
  [][\A s \in DOMAIN players \cap DOMAIN players' :
       /\ players'[s].id = players[s].id
       /\ players'[s].name = players[s].name
       /\ players'[s].modelPath = players[s].modelPath
       /\ players'[s].profileIndex = players[s].profileIndex]_vars

\* a player that asked for its own name and avatar still holds them after
\* an accepted move
C19_Witness ==
  /\ AcceptedBy("move")
  /\ lastOp.sid \in DOMAIN players
  /\ players[lastOp.sid].id = lastOp.sid
  /\ players[lastOp.sid].name = "Ann"
  /\ players[lastOp.sid].modelPath = "/models/Custom.glb"
  /\ players[lastOp.sid].isMoving
  /\ nTicks > 0

\* ------------------------------------------------------------------------
\* Animation requests that arrive while the model is loading
\* ------------------------------------------------------------------------
\* C20: an update that arrives before the model is loaded and reports an
\* animation other than the playing one is remembered as the pending
\* animation, whichever way it arrived; and when loading completes the
\* animation that plays is the one most recently asked for in this way
C20_PendingAnimationKept ==
  [][/\ Len(requested') = Len(requested) + 1
          => avatar'.pendingAnimation = requested'[Len(requested')]
     /\ (/\ ~avatar.modelLoaded /\ avatar'.modelLoaded
         /\ requested # <<>>)
          => avatar'.currentAnimation = requested[Len(requested)]]_vars

\* ------------------------------------------------------------------------
\* Clicks that yield no path, and arrival at the final waypoint
\* ------------------------------------------------------------------------
\* C23: a click for which pathfinding is not ready or finds no path leaves
\* the local avatar as it was: position, path, waypoint index and isMoving
\* are unchanged, and neither a move intent nor a pose is sent
C23_FailedClickStationary ==
  [][(nClicks' = nClicks + 1 /\ lastClick' = "failed")
       => /\ position' = position
          /\ path' = path
          /\ currentWaypointIndex' = currentWaypointIndex
          /\ isMoving' = isMoving
          /\ sentCommands' = sentCommands
          /\ sentPoses' = sentPoses]_vars

\* a click failed while the avatar was walking a path found by an earlier
\* click, whose move intent is the only one sent
C23_Witness ==
  /\ lastClick = "failed"
  /\ nClicks = 2
  /\ isMoving
  /\ path = <<73>>
  /\ position > 0
  /\ sentCommands = <<[kind |-> "move", x |-> 73]>>

\* C28: the update() that advances past the final waypoint, the avatar
\* being within 0.5 units of it (at most 50 hundredths: at exactly 50 the
\* code's doubles decide), stops the controller: isMoving becomes false,
\* the path is emptied, and exactly one stop intent and exactly one forced
\* pose are sent; while the controller is stopped nothing more is sent
\* until a click starts a new path
C28_StopAtFinalWaypoint ==
  [][/\ (isMoving /\ ~isMoving')
          => /\ Abs(path[Len(path)] - position) <= waypointRadius
             /\ currentWaypointIndex' = Len(path)
             /\ path' = <<>>
             /\ position' = position
             /\ sentCommands' = Append(sentCommands,
                                       [kind |-> "stop", x |-> position])
             /\ Len(sentPoses') = Len(sentPoses) + 1
             /\ sentPoses'[Len(sentPoses')] =
                  [t |-> clock, force |-> TRUE, x |-> position, moving |-> FALSE]
     /\ (~isMoving /\ ~isMoving')
          => /\ sentCommands' = sentCommands
             /\ sentPoses' = sentPoses]_vars

\* the controller walked the path of a click to its end and stopped there,
\* 0.48 units short of the waypoint; time has passed since and one move, one
\* stop and one forced pose are all the intents of that arrival
C28_Witness ==
  /\ ~isMoving
  /\ path = <<>>
  /\ position = 25
  /\ currentWaypointIndex = 1
  /\ sentCommands = <<[kind |-> "move", x |-> 73], [kind |-> "stop", x |-> position]>>
  /\ Cardinality({i \in 1..Len(sentPoses) : sentPoses[i].force}) = 1
  /\ clock > sentPoses[Len(sentPoses)].t

\* ------------------------------------------------------------------------
\* Interpolation and dead reckoning of a remote player
\* ------------------------------------------------------------------------
\* A frame has been rendered in this step and has left the target alone
FrameOnFixedTarget ==
  /\ nFrames' = nFrames + 1
  /\ avatar.modelLoaded
  /\ avatar'.targetPosition = avatar.targetPosition
\* What is left to the target along axis i before and after a step, exactly
Before(i) == Exactly(avatar.targetPosition[i], avatar.position[i])
After(i) == Exactly(avatar.targetPosition[i], avatar'.position[i])
\* The step has taken the position past the target along axis i
Passed(i) ==
  /\ After(i).man # <<>>
  /\ Before(i).man = <<>> \/ After(i).neg # Before(i).neg
\* The larger of the position and the target along axis i, in magnitude
Larger(i) ==
  IF Smaller(avatar.position[i], avatar.targetPosition[i])
    THEN avatar.targetPosition[i] ELSE avatar.position[i]
\* What is left along axis i after the step is below the rounding error of
\* one operation on the coordinates: 2^-51 of the larger of them
WithinRounding(i) == Smaller(Doubled(After(i), 51), Larger(i))
\* The smoothing fraction of what is left along axis i, exactly
Share(i) ==
  [neg |-> FALSE, exp |-> avatar.interpolationSpeed.exp + Before(i).exp,
   man |-> BMul(avatar.interpolationSpeed.man, Before(i).man)]

\* C24 (as claimed): while the target is fixed, a frame never takes the
\* rendered position farther from the target along an axis and never takes
\* it past the target
C24_NeverOvershoots ==
  [][FrameOnFixedTarget
       => \A i \in 1..3 : ~Smaller(Before(i), After(i)) /\ ~Passed(i)]_vars

\* C24 (amended): while the target is fixed, a frame never takes the rendered
\* position farther from the target along any axis, so the distance never
\* grows; the position passes the target only by the rounding of the
\* doubles, less than 2^-51 of the larger coordinate; the distance along
\* an axis shrinks whenever the smoothing fraction of it is at least 2^-52
\* of the larger coordinate; at the fraction 1 one frame brings the
\* position to within that rounding of the target; and the fraction is
\* always within [0.01, 1]
C24_InterpolationConverges ==
  /\ avatar.interpolationSpeed = interpolationSpeed
  /\ [][/\ ~FLess(avatar'.interpolationSpeed, Num(1))
        /\ ~FLess(One, avatar'.interpolationSpeed)
        /\ FrameOnFixedTarget
             => \A i \in 1..3 :
                  /\ ~Smaller(Before(i), After(i))
                  /\ Passed(i) => WithinRounding(i)
                  /\ (/\ Before(i).man # <<>>
                      /\ ~Smaller(Share(i), Doubled(Larger(i), -52)))
                       => Smaller(After(i), Before(i))
                  /\ avatar.interpolationSpeed = One
                       => After(i).man = <<>> \/ WithinRounding(i)]_vars

\* a player smoothed with the fraction 1 stood at x = 0.03 when the target
\* 0.3 arrived, and the frame rendered since has put it just past 0.3,
\* while along z, coming from 25, it stopped just short of 0.1
C24_Witness ==
  /\ lastAvatarOp = "frame"
  /\ avatar.interpolationSpeed = One
  /\ avatar.velocity = Origin
  /\ avatar.targetPosition[1] = Num(30)
  /\ FLess(avatar.targetPosition[1], avatar.position[1])
  /\ avatar.targetPosition[3] = Num(10)
  /\ FLess(avatar.targetPosition[3], avatar.position[3])

\* C29: while updates stall the target is extrapolated along the stored
\* velocity over a bounded horizon only: however many frames are rendered
\* without a new update, the target stays within the width of the world of
\* the position last received
C29_ExtrapolationBounded == NearLast

\* The pose an update carries
PoseIn(upd) ==
  [targetPosition |-> <<upd.x, upd.y, upd.z>>, targetRotation |-> upd.rotationY]
\* An update has been processed in this step, and it repeats the one
\* processed before it
Repeated ==
  /\ Len(received') = Len(received) + 1
  /\ received # <<>>
  /\ received[Len(received)] = received'[Len(received')]

\* C30 (as claimed): once an update has been processed, in whatever order
\* the updates were sent and also when it repeats the one before, the
\* target position and rotation are those of that update; processing a
\* duplicate of the last update leaves the target as it is
C30_DuplicateChangesNothing ==
  [][/\ Len(received') = Len(received) + 1
          => Aim(avatar') = PoseIn(received'[Len(received')])
     /\ Repeated => Aim(avatar') = Aim(avatar)]_vars

\* C30 (amended): once an update has been processed, in whatever order the updates
\* were sent and also when it repeats the one before, the target position
\* and rotation are those of that update; processing a duplicate of the
\* last update leaves the target rotation as it is, and the target
\* position too unless frames have extrapolated it since, and then the
\* duplicate puts it back
C30_TargetIsLastProcessed ==
  [][/\ Len(received') = Len(received) + 1
          => Aim(avatar') = PoseIn(received'[Len(received')])
     /\ Repeated
          => /\ avatar'.targetRotation = avatar.targetRotation
             /\ avatar'.targetPosition # avatar.targetPosition
                  => /\ nFrames > 0
                     /\ avatar.targetPosition
                          # PoseIn(received[Len(received)]).targetPosition]_vars

\* the update sent last was processed first, then the older one, then,
\* after a stall in which a frame was rendered, a duplicate of the older
\* one, and the target is the older one's pose
C30_Witness ==
  /\ Len(received) = 3
  /\ received[1].timestamp > received[2].timestamp
  /\ received[3] = received[2]
  /\ lastAvatarOp = "update"
  /\ nFrames > 0
  /\ avatar.modelLoaded
  /\ clock >= Epoch + StallMs
  /\ Aim(avatar) = PoseIn(received[3])
  /\ avatar.velocity # Origin

\* C26: when the connection to the room is lost, the client's registry of
\* remote players is empty.
C26_LostConnectionClearsRegistry ==
  \A c \in Sessions : hook[c] = "lost" => remotePlayers[c] = <<>>

\* C27: a connect() that waits for the initial state does not wait for
\* ever: it resolves with the handlers installed, or it ends.
C27_ConnectSettles ==
  \A c \in Sessions : (hook[c] = "awaitState") ~> (hook[c] # "awaitState")

\* ------------------------------------------------------------------------
\* The path planner
\* ------------------------------------------------------------------------
\* the square of an integer
Sq(i) == i * i
\* Every coordinate of v is a number of two decimals
IsDecimal(v) == V3(Shown(v)[1], Shown(v)[2], Shown(v)[3]) = v
\* The square of the distance from a to b, in exact arithmetic on their
\* coordinates in hundredths
DistSqExact(a, b) ==
  Sq(Shown(a)[1] - Shown(b)[1]) + Sq(Shown(a)[2] - Shown(b)[2])
    + Sq(Shown(a)[3] - Shown(b)[3])
\* radius + margin of obstacle o, in hundredths
ReachExact(o, margin) == Hundredths(o.radius) + Hundredths(margin)

\* Every point of the ground within the snap tolerance of p is blocked: one
\* obstacle reaches, with the default margin, every point whose distance
\* from p on the ground is at most 5.  far is a bound of the distance from
\* p to the point under the centre
NoFreePointNear(obstacles, p) ==
  \E k \in 1..Len(obstacles) :
    LET c == Shown(obstacles[k].center)
        q == Shown(p)
        reach == ReachExact(obstacles[k], DefaultMargin)
    IN \E far \in 0..reach :
         /\ Sq(far) >= Sq(q[1] - c[1]) + Sq(q[3] - c[3])
         /\ Sq(far + SearchRadius * Scale) + Sq(q[2] - c[2]) < Sq(reach)

\* C21: when the destination lies inside an obstacle and every point within
\* 5 units of it is blocked, findPath returns null.
C21_UnreachableReported ==
  (/\ pathOp.kind = "findPath"
   /\ pathOp.nav.isInitialized
   /\ NoFreePointNear(pathOp.nav.obstacles, pathOp.end))
  => pathOp.result = Null

\* C22: findPath returns null only when the navigation model is not
\* initialized.
C22_NullOnlyUninitialized ==
  (pathOp.kind = "findPath" /\ pathOp.result = Null) => ~pathOp.nav.isInitialized

\* The points of the segment from a to b at steps of at most one unit, both
\* ends included
SegmentSamples(a, b) ==
  IF Steps(a, b) = 0 THEN {a}
  ELSE {SightSample(a, b, i) : i \in 0..Steps(a, b)}
SamplesFree(obstacles, a, b) ==
  \A q \in SegmentSamples(a, b) : ~isPositionBlocked(obstacles, q, SightMargin)
MidpointFree(obstacles, a, b) ==
  ~isPositionBlocked(obstacles, scale(add(a, b), Half), DefaultMargin)

\* C25 (as claimed): when no segment of the raw path has a blocked midpoint,
\* no segment of the path smoothPath returns has a blocked sample.
C25_FreeMidpointsGiveFreeSamples ==
  pathOp.kind = "smoothPath" =>
    LET raw == pathOp.raw
        smoothed == pathOp.result.waypoints
        obstacles == pathOp.nav.obstacles
    IN (\A i \in 1..(Len(raw) - 1) : MidpointFree(obstacles, raw[i], raw[i + 1]))
       => \A j \in 1..(Len(smoothed) - 1) :
            SamplesFree(obstacles, smoothed[j], smoothed[j + 1])

\* C25 (amended): smoothPath adds no obstacle violation.  Every segment of
\* the path it returns is a segment of the raw path, has length zero, or has
\* no blocked sample; so when no segment of the raw path has a blocked
\* sample, no segment of the returned path has one.  The returned path
\* starts and ends where the raw path does and is not longer.
C25_SmoothingAddsNoViolation ==
  pathOp.kind = "smoothPath" =>
    LET raw == pathOp.raw
        smoothed == pathOp.result.waypoints
        obstacles == pathOp.nav.obstacles
        kept(j) == \E i \in 1..(Len(raw) - 1) :
                     raw[i] = smoothed[j] /\ raw[i + 1] = smoothed[j + 1]
    IN /\ \A j \in 1..(Len(smoothed) - 1) :
            \/ kept(j)
            \/ smoothed[j] = smoothed[j + 1]
            \/ SamplesFree(obstacles, smoothed[j], smoothed[j + 1])
       /\ (\A i \in 1..(Len(raw) - 1) : SamplesFree(obstacles, raw[i], raw[i + 1]))
            => \A j \in 1..(Len(smoothed) - 1) :
                 kept(j) \/ SamplesFree(obstacles, smoothed[j], smoothed[j + 1])
       /\ Len(smoothed) <= Len(raw)
       /\ smoothed[1] = raw[1]
       /\ smoothed[Len(smoothed)] = raw[Len(raw)]

\* with one obstacle, around the origin, the detour of a raw path has been
\* cut: three waypoints became two, in line of sight of each other
C25_Witness ==
  /\ pathOp.kind = "smoothPath"
  /\ Len(pathOp.nav.obstacles) = 1
  /\ Shown(pathOp.nav.obstacles[1].center) = <<0, 150, 0>>
  /\ pathOp.raw = <<Ground(0, 5), Ground(-4, 0), Ground(10, 0)>>
  /\ pathOp.result.waypoints = <<Ground(0, 5), Ground(10, 0)>>

\* Obstacle o reaches point p with the given margin: the distance from p to
\* its centre, as Vector3.Distance computes it, is strictly less than its
\* radius plus the margin
Reaches(o, p, margin) ==
  FLess(Distance(p, o.center), FAdd(o.radius, margin))

\* C33: isPositionBlocked(p, margin) is true exactly when the distance from
\* p to the centre of some registered obstacle is strictly less than that
\* obstacle's radius plus margin; with no obstacle registered it is false.
\* The distance is the one Vector3.Distance computes; for coordinates of
\* two decimals it decides as the exact distance does: a point is blocked
\* when the exact distance to some centre is less than radius plus margin,
\* and free when it is greater for every obstacle
C33_BlockedIffInsideSomeObstacle ==
  pathOp.kind = "isPositionBlocked" =>
    LET obstacles == pathOp.nav.obstacles
        p == pathOp.end
        margin == pathOp.margin
    IN /\ pathOp.blocked <=>
            \E k \in 1..Len(obstacles) : Reaches(obstacles[k], p, margin)
       /\ obstacles = <<>> => ~pathOp.blocked
       /\ (IsDecimal(p) /\ \A k \in 1..Len(obstacles) : IsDecimal(obstacles[k].center))
            => /\ (\E k \in 1..Len(obstacles) :
                     DistSqExact(p, obstacles[k].center)
                       < Sq(ReachExact(obstacles[k], margin)))
                    => pathOp.blocked
               /\ (\A k \in 1..Len(obstacles) :
                     DistSqExact(p, obstacles[k].center)
                       > Sq(ReachExact(obstacles[k], margin)))
                    => ~pathOp.blocked

\* with two obstacles registered, a point whose distance from the centre of
\* the second one is its radius plus the margin, exactly, has been found
\* free
C33_Witness ==
  /\ pathOp.kind = "isPositionBlocked"
  /\ Len(pathOp.nav.obstacles) = 2
  /\ pathOp.margin = DefaultMargin
  /\ DistSqExact(pathOp.end, pathOp.nav.obstacles[2].center)
       = Sq(ReachExact(pathOp.nav.obstacles[2], pathOp.margin))
  /\ ~pathOp.blocked

\* Point q is the first free sample around p in scan order: radii 1..5
\* ascending, 8 directions per radius
FirstFreeSample(n, p, q) ==
  \E k \in 0..(Samples * SearchRadius - 1) :
    /\ q = TestPos(p, k)
    /\ isWalkable(n, q)
    /\ \A j \in 0..(k - 1) : ~isWalkable(n, TestPos(p, j))
NoFreeSample(n, p) ==
  \A k \in 0..(Samples * SearchRadius - 1) : ~isWalkable(n, TestPos(p, k))
\* What getClosestWalkablePosition returns for p is p when p is free, the
\* first free sample when there is one, and p when there is none
SnapsTo(n, p, q) ==
  IF isWalkable(n, p) THEN q = p
  ELSE IF NoFreeSample(n, p) THEN q = p
  ELSE FirstFreeSample(n, p, q)

\* C32 (as claimed): getClosestWalkablePosition(p) returns p when p is free,
\* else the first free sample in scan order, else p; the result is p or a
\* free point whose distance from p is at most 5; and applying it to its
\* own result returns that result.
C32_SnapWithinRadius ==
  pathOp.kind = "getClosestWalkablePosition" =>
    LET n == pathOp.nav
        p == pathOp.end
        q == pathOp.result.waypoints[1]
    IN /\ SnapsTo(n, p, q)
       /\ \/ q = p
          \/ isWalkable(n, q) /\ ~TooFar(q, p)
       /\ getClosestWalkablePosition(n, q) = q

\* C32 (amended): getClosestWalkablePosition(p) returns p when p is free,
\* else the first free sample in scan order, else p; the result is p or a
\* free sample point p + radius * (cos a, 0, sin a) with radius one of
\* 1..5, whose distance from p, as the doubles compute it, is the radius up
\* to rounding and can exceed 5; and applying it to its own result returns
\* that result.
C32_SnapToSample ==
  pathOp.kind = "getClosestWalkablePosition" =>
    LET n == pathOp.nav
        p == pathOp.end
        q == pathOp.result.waypoints[1]
    IN /\ SnapsTo(n, p, q)
       /\ \/ q = p
          \/ /\ isWalkable(n, q)
             /\ \E k \in 0..(Samples * SearchRadius - 1) :
                  /\ q = TestPos(p, k)
                  /\ SampleRadius(k) \in 1..SearchRadius
                  /\ Hundredths(Distance(q, p)) = SampleRadius(k) * Scale
       /\ getClosestWalkablePosition(n, q) = q

\* a blocked point whose samples of radius 1 are all blocked has been moved
\* to a free sample of radius 2
C32_Witness ==
  /\ pathOp.kind = "getClosestWalkablePosition"
  /\ ~isWalkable(pathOp.nav, pathOp.end)
  /\ \A k \in 0..(Samples - 1) : ~isWalkable(pathOp.nav, TestPos(pathOp.end, k))
  /\ pathOp.result.waypoints[1] # pathOp.end
  /\ isWalkable(pathOp.nav, pathOp.result.waypoints[1])
  /\ Distance(pathOp.result.waypoints[1], pathOp.end) = Two

\* The obstacles that block the line from start to end: those that reach
\* its midpoint with the default margin
Blockers(obstacles, start, end) ==
  {k \in 1..Len(obstacles) :
     Reaches(obstacles[k], scale(add(start, end), Half), DefaultMargin)}
\* Point d is a detour point of obstacle o for a walk from start: at the
\* height of the centre, at distance radius + 2 from it, to a hundredth,
\* in a direction perpendicular to the one from start to the centre
IsDetourPoint(o, start, d) ==
  LET out == subtract(d, o.center)
      toObstacle == subtract(o.center, start)
  IN /\ d[2] = o.center[2]
     /\ Hundredths(Distance(d, o.center)) = Hundredths(FAdd(o.radius, Two))
     /\ Hundredths(FAdd(FMul(out[1], toObstacle[1]),
                        FMul(out[3], toObstacle[3]))) = 0

\* C31: on an initialized model and with a free end, findPath returns [end]
\* when the midpoint of start-end is free, and otherwise [d, end] with d the
\* detour point, at distance radius + 2 from the centre of the nearest
\* obstacle blocking the line, that is the closer to end of the two.
C31_DetourAroundBlockingObstacle ==
  (/\ pathOp.kind = "findPath"
   /\ pathOp.nav.isInitialized
   /\ ~isPositionBlocked(pathOp.nav.obstacles, pathOp.end, DefaultMargin))
  => LET obstacles == pathOp.nav.obstacles
         blockers == Blockers(obstacles, pathOp.start, pathOp.end)
         way == pathOp.result.waypoints
     IN IF blockers = {}
          THEN ~pathOp.result.isNull /\ way = <<pathOp.end>>
          ELSE LET k == CHOOSE b \in blockers : \A j \in blockers :
                          ~FLess(Distance(pathOp.start, obstacles[j].center),
                                 Distance(pathOp.start, obstacles[b].center))
                   mirror == subtract(scale(obstacles[k].center, Two), way[1])
               IN /\ ~pathOp.result.isNull
                  /\ Len(way) = 2
                  /\ way[2] = pathOp.end
                  /\ IsDetourPoint(obstacles[k], pathOp.start, way[1])
                  /\ ~FLess(Distance(mirror, pathOp.end),
                            Distance(way[1], pathOp.end))

\* Sequence s is a subsequence of sequence t: its elements are elements of
\* t at increasing indexes
IsSubsequence(s, t) ==
  \E f \in [1..Len(s) -> 1..Len(t)] :
    /\ \A j \in 1..Len(s) : s[j] = t[f[j]]
    /\ \A i \in 1..Len(s), j \in 1..Len(s) : i < j => f[i] < f[j]

\* C39: smoothPath returns a subsequence of the path it is given, with the
\* same first and the same last waypoint and not longer; a path of one or
\* two waypoints is returned as it is.
C39_SmoothedIsSubsequence ==
  pathOp.kind = "smoothPath" =>
    /\ IsSubsequence(pathOp.result.waypoints, pathOp.raw)
    /\ pathOp.result.waypoints[1] = pathOp.raw[1]
    /\ pathOp.result.waypoints[Len(pathOp.result.waypoints)]
         = pathOp.raw[Len(pathOp.raw)]
    /\ Len(pathOp.result.waypoints) <= Len(pathOp.raw)
    /\ Len(pathOp.raw) <= 2 => pathOp.result.waypoints = pathOp.raw

\* a path that returns to its first waypoint has been smoothed, among
\* obstacles, into that waypoint twice: the first and the last of the input
C39_Witness ==
  /\ pathOp.kind = "smoothPath"
  /\ pathOp.nav.obstacles # <<>>
  /\ Len(pathOp.raw) = 3
  /\ pathOp.raw[1] = pathOp.raw[3] /\ pathOp.raw[2] # pathOp.raw[1]
  /\ pathOp.result.waypoints = <<pathOp.raw[1], pathOp.raw[3]>>

\* ------------------------------------------------------------------------
\* Frame conditions and state invariants of the room
\* ------------------------------------------------------------------------
\* The fields of a player a handler of the given kind assigns
FieldsOf(kind) ==
  IF kind = "move" THEN {"destX", "destZ", "isMoving", "animation", "timestamp"}
  ELSE IF kind = "position" THEN {"x", "y", "z", "rotationY", "timestamp"}
  ELSE {"isMoving", "animation"}

\* C35: a move, position or stop from session S changes no other player and
\* no field of S's player but those of the operation (a move leaves position
\* and rotation, a position leaves destination, isMoving and animation, a
\* stop leaves position, rotation and destination); the clock tick changes
\* serverTime only.
C35_HandlersTouchOwnFieldsOnly ==
  [][/\ (nOps' = nOps + 1 /\ lastOp'.kind \in {"move", "position", "stop"}) =>
          /\ DOMAIN players' = DOMAIN players
          /\ \A s \in DOMAIN players \ {lastOp'.sid} : players'[s] = players[s]
          /\ \A s \in DOMAIN players \cap {lastOp'.sid} :
               \A f \in DOMAIN players[s] \ FieldsOf(lastOp'.kind) :
                 players'[s][f] = players[s][f]
          /\ UNCHANGED <<clients, left, modelIndex, serverTime, outbox>>
     /\ nTicks' = nTicks + 1 =>
          /\ serverTime' # serverTime
          /\ UNCHANGED <<clients, left, players, modelIndex, now, outbox,
                         lastOp, nOps>>]_vars

\* a position report has just been stored for a player that is moving
\* towards a destination, while another player is in the room and the
\* room's clock has ticked
C35_Witness ==
  /\ AcceptedBy("position")
  /\ Cardinality(DOMAIN players) = 2
  /\ players[lastOp.sid].isMoving
  /\ players[lastOp.sid].destX # 0
  /\ players[lastOp.sid].x = lastOp.args[1]
  /\ serverTime > 0

\* C36: a player that is moving has the walk animation.
C36_MovingPlayersWalk ==
  \A s \in DOMAIN players : players[s].isMoving => players[s].animation = "walk"

\* one player has been stopped and is idle, and another has then been sent
\* moving and walks
C36_Witness ==
  /\ AcceptedBy("move")
  /\ players[lastOp.sid].isMoving
  /\ players[lastOp.sid].animation = "walk"
  /\ nOps = 4
  /\ \E s \in DOMAIN players : ~players[s].isMoving /\ players[s].animation = "idle"

\* C40: after followPath with a non-empty path, repeated update() calls
\* reach the final waypoint and stop (isMoving becomes false); during a walk
\* currentWaypointIndex never decreases, and whenever update() reads a
\* waypoint the index is a valid index of the path
C40_WalkTerminates ==
  /\ [](isMoving /\ Len(path) # 0 => currentWaypointIndex + 1 \in 1..Len(path))
  /\ [][nClicks' = nClicks => currentWaypointIndex' >= currentWaypointIndex]_vars
  /\ (isMoving /\ Len(path) # 0) ~> ~isMoving

\* the controller has walked to the second waypoint of a two-waypoint path:
\* the first one is behind it and it has moved since the click
C40_Witness ==
  /\ isMoving
  /\ path = <<10, 70>>
  /\ currentWaypointIndex = 1
  /\ position = 20
  /\ nClicks = 1

\* the text cannot be read as a message: it is not JSON, it is not an
\* object, or the object has no identity
Malformed(data) ==
  \/ data.kind \in {"bytes", "null"}
  \/ data.kind = "object" /\ data.identity = Undefined
UnknownType(data) ==
  data.kind = "object" /\ data.type \notin {"position", "path", "joined", "left"}
FromSelf(m, data) ==
  data.kind = "object" /\ data.identity = m.localIdentity
PositionOfUnregistered(m, data) ==
  /\ data.kind = "object"
  /\ data.type = "position"
  /\ data.identity \notin DOMAIN m.remotePlayers
NoEffect ==
  /\ mm'.remotePlayers = mm.remotePlayers
  /\ calls' = calls

\* C34: a received data message that is malformed, carries an unknown type
\* tag, carries the local identity, or is a position update for an identity
\* with no registered remote player is rejected without effect: the registry
\* of remote players is unchanged and no joined or left callback is invoked
C34_RejectedWithoutEffect ==
  [][(/\ nData' = nData + 1
      /\ \/ Malformed(lastData')
         \/ UnknownType(lastData')
         \/ FromSelf(mm, lastData')
         \/ PositionOfUnregistered(mm, lastData'))
       => NoEffect]_vars

\* the same with only unreadable text counted as malformed
UnreadableRejected ==
  [][(/\ nData' = nData + 1
      /\ \/ lastData'.kind \in {"bytes", "null"}
         \/ UnknownType(lastData')
         \/ FromSelf(mm, lastData')
         \/ PositionOfUnregistered(mm, lastData'))
       => NoEffect]_vars

\* C38: when the useColyseus effect is cleaned up while its connect is in
\* flight, the room is left as soon as connect completes: once connect has
\* returned the session is leaving or gone, the run never sets isConnected
\* to true, and in the end no session stays joined for the disposed run
C38_DisposedRunLeaves ==
  /\ [](\A r \in 1..MaxRuns :
          effect.runs[r].inFlight
            => /\ ~effect.runs[r].setConnected
               /\ effect.runs[r].phase = "done"
                    => effect.runs[r].session \in {"leaving", "left"})
  /\ [](effect.isConnected
          => /\ effect.started # 0
             /\ ~effect.runs[effect.started].disposed)
  /\ \A r \in 1..MaxRuns :
       effect.runs[r].inFlight ~> [](effect.runs[r].session # "joined")

\* the first run was cleaned up before its join resolved, when its manager
\* had no room to leave; the join and the first state came afterwards and
\* the run then left the room, while the second run is connected
C38_Witness ==
  /\ effect.runs[1].inFlight
  /\ effect.runs[1].phase = "done"
  /\ effect.runs[1].handlers
  /\ effect.runs[1].leaves = 1
  /\ effect.runs[1].session = "left"
  /\ effect.started = 2
  /\ effect.isConnected

\* The position at which the walk ended: the one of the last stop intent
FinalPosition == sentCommands[Len(sentCommands)].x

\* C37 (as claimed): after a local move has completed (a click that found a
\* path, the throttled poses of the walk, the arrival) and every message the
\* client sent has reached the room in the order sent, the room's player is
\* not moving, its animation is idle and its position is the client's final
\* position
C37_AuthorityAgreesAsClaimed ==
  (/\ lastClick = "path"
   /\ ~isMoving
   /\ wire = <<>>
   /\ LocalSession \in DOMAIN players)
    => /\ ~players[LocalSession].isMoving
       /\ players[LocalSession].animation = "idle"
       /\ players[LocalSession].x = FinalPosition

\* C37 (amended): after a local move has completed while the client's
\* ColyseusManager held its room at the arrival, so that the stop intent and
\* the final pose were sent, and every message sent has reached the room in
\* the order sent, the room's player is not moving, its animation is idle
\* and its position is the client's final position, the one at which the
\* walk ended; the client is still there unless its model has been placed
\* since.  While the manager has no room nothing is sent, and the room's
\* player stays as it joined: not moving, its animation walk
C37_AuthorityAgreesAfterArrival ==
  /\ (/\ lastClick = "path"
      /\ ~isMoving
      /\ link.stopSent
      /\ wire = <<>>)
       => /\ LocalSession \in DOMAIN players
          /\ ~players[LocalSession].isMoving
          /\ players[LocalSession].animation = "idle"
          /\ players[LocalSession].x = FinalPosition
          /\ players[LocalSession].y = link.y
          /\ players[LocalSession].z = link.z
          /\ players[LocalSession].rotationY = link.rotationY
          /\ ~mesh => position = FinalPosition
  /\ (~link.room /\ LocalSession \in DOMAIN players)
       => /\ wire = <<>>
          /\ ~players[LocalSession].isMoving
          /\ players[LocalSession].animation = "walk"

\* the walk to a waypoint one unit away has ended, the last
\* pose before the arrival was held back by the throttle, and the room has
\* handled everything: the move, at least one pose of the walk, the stop and
\* the final pose, which carries the turn of the player toward the walk
C37_Witness ==
  /\ lastClick = "path"
  /\ ~isMoving
  /\ link.stopSent
  /\ wire = <<>>
  /\ currentWaypointIndex = 1
  /\ position > Scale \div 2
  /\ Len(sentPoses) >= 3
  /\ sentPoses[Len(sentPoses) - 1].x # position
  /\ players[LocalSession].x = position
  /\ players[LocalSession].destX = 1
  /\ lastOp.kind = "position"
  /\ FLess(Zero, players[LocalSession].rotationY)

====
